---------------------------- MODULE Spec2Model ----------------------------
(***************************************************************************)
(* Track-based alignment of detector elements (eyiliu/acts-core).          *)
(*                                                                         *)
(*   Acts::detail::trackAlignmentState   Core/.../AlignmentEngine.hpp      *)
(*   FW::Alignment::evaluateTrackAlignmentState / updateAlignmentParameters *)
(*   / align                             Examples/.../Alignment.hpp        *)
(*                                                                         *)
(* Doubles are IEEE 754 binary64 values (sign, 53-digit mantissa,          *)
(* exponent; zeros, subnormal numbers, infinities and NaN) and their       *)
(* arithmetic rounds to nearest, ties to even; matrices and vectors whose  *)
(* entries come from the external fitter and geometry are modelled as      *)
(* formal sums of named terms.                                             *)
(***************************************************************************)
EXTENDS Integers, Sequences, FiniteSets, TLC

(***************************************************************************)
(* Bounds of the model and program constants                               *)
(***************************************************************************)
\* largest configured AlignmentOptions::maxIterations
MaxIters == 3
\* largest trajectoryCollection.size()
MaxTracks == 2
\* largest configured window length deltaAverageChi2ONdfCutOff.first
MaxWindow == 2
\* largest number of track states of a fitted trajectory (engine runs)
MaxTrackStates == 3
\* largest alignedDetElements.size() of the runs on lists with repeats
MaxElements == 3

\* Acts::eAlignmentParametersSize
eAlignmentParametersSize == 6
\* Acts::eBoundParametersSize
eBoundParametersSize == 6
\* the first centre entry and the first rotation entry of a segment
eAlignmentCenter0 == 0
eAlignmentRotation0 == 3

\* detector elements of the geometry; element e owns surface e
Elements == {1, 2}
Surfaces == Elements
\* calibrated measurement dimensions
MeasDims == {1, 2}
\* values the residual form r^T V^-1 r of a fitted track takes
Chi2Values == {0, 2}

(***************************************************************************)
(* double arithmetic (IEEE 754 binary64, round to nearest, ties to even)   *)
(***************************************************************************)
\* a natural number of any size is a sequence of limbs, the least
\* significant first, each in 0..Base-1, the most significant not 0; the
\* empty sequence is 0. The operators hand their operands to a local
\* function, which takes them as values
LimbBits == 15
Base == 32768
BigNat == Seq(Nat)

\* 2^n, n <= 30
Pow2(n) == 2^n

Max(a, b) == IF a >= b THEN a ELSE b

Abs(n) == IF n < 0 THEN 0 - n ELSE n

Zeros(n) == [i \in 1..n |-> 0]

\* x without its most significant limbs 0
BTrim(x) ==
    LET Trim[a \in BigNat] ==
            IF a = <<>> \/ a[Len(a)] # 0 THEN a
            ELSE Trim[SubSeq(a, 1, Len(a) - 1)]
    IN  Trim[x]

\* the natural number n < 2^31
BFromInt(n) ==
    LET Limbs[k \in Nat] ==
            IF k = 0 THEN <<>> ELSE <<k % Base>> \o Limbs[k \div Base]
    IN  Limbs[n]

\* limb i of x, 0 outside x
Limb(x, i) == IF 1 <= i /\ i <= Len(x) THEN x[i] ELSE 0

\* x + y
BAdd(x, y) ==
    LET Add[a \in BigNat, b \in BigNat, i \in Nat, carry \in Nat] ==
            IF i > Len(a) /\ i > Len(b)
            THEN (IF carry = 0 THEN <<>> ELSE <<carry>>)
            ELSE <<(Limb(a, i) + Limb(b, i) + carry) % Base>>
                     \o Add[a, b, i + 1,
                            (Limb(a, i) + Limb(b, i) + carry) \div Base]
    IN  Add[x, y, 1, 0]

\* x - y for x >= y
BSub(x, y) ==
    LET Sub[a \in BigNat, b \in BigNat, i \in Nat, borrow \in Nat] ==
            IF i > Len(a) THEN <<>>
            ELSE <<(a[i] - Limb(b, i) - borrow + Base) % Base>>
                     \o Sub[a, b, i + 1,
                            IF a[i] - Limb(b, i) - borrow < 0 THEN 1 ELSE 0]
    IN  BTrim(Sub[x, y, 1, 0])

\* -1, 0 or 1 as x is below, equal to or above y
BCmp(x, y) ==
    LET Cmp[a \in BigNat, b \in BigNat] ==
            IF Len(a) < Len(b) THEN 0 - 1
            ELSE IF Len(a) > Len(b) THEN 1
            ELSE IF a = <<>> THEN 0
            ELSE IF a[Len(a)] < b[Len(a)] THEN 0 - 1
            ELSE IF a[Len(a)] > b[Len(a)] THEN 1
            ELSE Cmp[SubSeq(a, 1, Len(a) - 1), SubSeq(b, 1, Len(a) - 1)]
    IN  Cmp[x, y]

\* quotient q and remainder r of x by k, 0 < k < 2 * Base
BDivSmall(x, k) ==
    LET Div[a \in BigNat, d \in Nat, rem \in Nat, quot \in BigNat] ==
            IF a = <<>> THEN [q |-> BTrim(quot), r |-> rem]
            ELSE Div[SubSeq(a, 1, Len(a) - 1), d,
                     (rem * Base + a[Len(a)]) % d,
                     <<(rem * Base + a[Len(a)]) \div d>> \o quot]
    IN  Div[x, k, 0, <<>>]

\* x * 2^n: limb i takes the low digits of limb i of x and the high digits
\* of the limb below it, w whole limbs further up
BShl(x, n) ==
    LET Shl[a \in BigNat, w \in Nat, b \in Nat] ==
            IF a = <<>> THEN a
            ELSE Zeros(w) \o BTrim([i \in 1..Len(a) + 1 |->
                     ((Limb(a, i) * Pow2(b)) % Base)
                         + (Limb(a, i - 1) \div Pow2(LimbBits - b))])
    IN  Shl[x, n \div LimbBits, n % LimbBits]

\* floor(x / 2^n)
BShr(x, n) ==
    LET Shr[a \in BigNat, w \in Nat, b \in Nat] ==
            IF w >= Len(a) THEN <<>>
            ELSE BTrim([i \in 1..Len(a) - w |->
                     (Limb(a, i + w) \div Pow2(b))
                         + (Limb(a, i + w + 1) % Pow2(b)) * Pow2(LimbBits - b)])
    IN  Shr[x, n \div LimbBits, n % LimbBits]

\* binary digit n of x, digit 0 the least significant
BBit(x, n) == (Limb(x, (n \div LimbBits) + 1) \div Pow2(n % LimbBits)) % 2

\* the digits of x below digit n are all 0
BLowZero(x, n) ==
    /\ \A i \in 1..(n \div LimbBits) : Limb(x, i) = 0
    /\ Limb(x, (n \div LimbBits) + 1) % Pow2(n % LimbBits) = 0

\* the number of binary digits of the integer n >= 0
IntBitLen(n) ==
    LET Digits[k \in Nat] == IF k = 0 THEN 0 ELSE 1 + Digits[k \div 2]
    IN  Digits[n]

\* the number of binary digits of x
BBitLen(x) ==
    LET Digits[a \in BigNat] ==
            IF a = <<>> THEN 0
            ELSE (Len(a) - 1) * LimbBits + IntBitLen(a[Len(a)])
    IN  Digits[x]

BIsOdd(x) == LET Odd[a \in BigNat] == a # <<>> /\ a[1] % 2 = 1 IN Odd[x]

\* a double is [s, m, e]: sign s (1 is negative), mantissa m (a natural
\* number below 2^MantBits) and exponent e, the number (-1)^s * m * 2^e.
\* Normal numbers have a mantissa of exactly MantBits digits and e in
\* EMin..EMax, subnormal numbers and the zeros have e = EMin; e = ESpecial
\* is an infinity (m = 0) or NaN
MantBits == 53
EMin == 0 - 1074
EMax == 971
ESpecial == 972
Doubles == [s : {0, 1}, m : BigNat, e : Int]

Finite(s, m, e) == [s |-> s, m |-> m, e |-> e]
Zero(s) == Finite(s, <<>>, EMin)
Inf(s) == Finite(s, <<>>, ESpecial)
PosInf == Inf(0)
NegInf == Inf(1)
NaN == Finite(0, <<1>>, ESpecial)
\* std::numeric_limits<double>::max(): (2^53 - 1) * 2^971
DoubleMax == Finite(0, <<32767, 32767, 32767, 255>>, EMax)

IsNaN(a) == a.e = ESpecial /\ a.m # <<>>
IsInf(a) == a.e = ESpecial /\ a.m = <<>>
IsZeroDouble(a) == a.e # ESpecial /\ a.m = <<>>

\* m with its last shift > 0 digits cut off is q: the digits cut off are
\* more than half a unit of q, or exactly half and q is odd
RoundsUp(m, q, shift) ==
    LET Up[a \in BigNat, half \in Nat] ==
            BBit(a, half) = 1 /\ (~BLowZero(a, half) \/ BIsOdd(q))
    IN  Up[m, shift - 1]

\* m * 2^e with the last shift digits of m rounded away (shift > 0) or
\* -shift digits 0 appended (shift <= 0)
RoundShifted(s, m, e, shift) ==
    LET Packed[r \in BigNat] ==
            IF BBitLen(r) > MantBits
            THEN Finite(s, BShr(r, 1), e + shift + 1)
            ELSE Finite(s, r, e + shift)
        Nearest[q \in BigNat] ==
            Packed[IF RoundsUp(m, q, shift) THEN BAdd(q, <<1>>) ELSE q]
    IN  IF shift <= 0 THEN Finite(s, BShl(m, 0 - shift), e + shift)
        ELSE Nearest[BShr(m, shift)]

\* beyond DBL_MAX a result is an infinity
Overflowed(a) ==
    LET Over[x \in Doubles] == IF x.e > EMax THEN Inf(x.s) ELSE x
    IN  Over[a]

\* the double nearest to (-1)^s * m * 2^e, ties to the even mantissa
Round(s, m, e) ==
    LET Rounded[x \in BigNat, shift \in Int] ==
            Overflowed(RoundShifted(s, x, e, shift))
        Nearest[x \in BigNat] ==
            IF x = <<>> THEN Zero(s)
            ELSE Rounded[x, Max(BBitLen(x) - MantBits, EMin - e)]
    IN  Nearest[m]

\* double(n) of an integer
ToDouble(n) == Round(IF n < 0 THEN 1 ELSE 0, BFromInt(Abs(n)), 0)

\* -a
DNeg(a) ==
    LET Neg[x \in Doubles] == IF IsNaN(x) THEN x ELSE [x EXCEPT !.s = 1 - x.s]
    IN  Neg[a]

\* std::abs(a)
DAbs(a) ==
    LET AbsOf[x \in Doubles] == IF IsNaN(x) THEN x ELSE [x EXCEPT !.s = 0]
    IN  AbsOf[a]

\* digits a sum keeps below the mantissa before it is rounded
GuardBits == 64

\* (-1)^sa * ma * 2^e + (-1)^sb * mb * 2^e; x + -x is +0
AddAligned(sa, ma, sb, mb, e) ==
    LET Difference[x \in BigNat, y \in BigNat, c \in Int] ==
            IF c = 0 THEN Zero(0)
            ELSE IF c > 0 THEN Round(sa, BSub(x, y), e)
            ELSE Round(sb, BSub(y, x), e)
        Aligned[x \in BigNat, y \in BigNat] ==
            IF sa = sb THEN Round(sa, BAdd(x, y), e)
            ELSE Difference[x, y, BCmp(x, y)]
    IN  Aligned[ma, mb]

\* a + b of finite doubles: the exact sum, rounded. An operand more than
\* GuardBits digits below the other one only decides the direction of the
\* rounding, as any number of its sign that far below does
AddFinite(a, b) ==
    IF a.m = <<>> /\ b.m = <<>> THEN Zero(IF a.s = b.s THEN a.s ELSE 0)
    ELSE IF a.m = <<>> THEN b
    ELSE IF b.m = <<>> THEN a
    ELSE IF a.e - b.e > GuardBits
    THEN AddAligned(a.s, BShl(a.m, GuardBits), b.s, <<1>>, a.e - GuardBits)
    ELSE IF b.e - a.e > GuardBits
    THEN AddAligned(a.s, <<1>>, b.s, BShl(b.m, GuardBits), b.e - GuardBits)
    ELSE IF a.e >= b.e
    THEN AddAligned(a.s, BShl(a.m, a.e - b.e), b.s, b.m, b.e)
    ELSE AddAligned(a.s, a.m, b.s, BShl(b.m, b.e - a.e), a.e)

\* a + b: inf + -inf is NaN, an infinity absorbs every finite operand
DAdd(a, b) ==
    LET Add[x \in Doubles, y \in Doubles] ==
            IF IsNaN(x) \/ IsNaN(y) THEN NaN
            ELSE IF IsInf(x) /\ IsInf(y) THEN (IF x.s = y.s THEN x ELSE NaN)
            ELSE IF IsInf(x) THEN x
            ELSE IF IsInf(y) THEN y
            ELSE AddFinite(x, y)
    IN  Add[a, b]

\* a - b
DSub(a, b) == DAdd(a, DNeg(b))

\* digits a quotient keeps below the mantissa before it is rounded
DivBits == 30

\* the quotient d.q with remainder d.r of a division, at exponent e: a
\* remainder other than 0 makes the last digit kept a 1, which decides the
\* direction of the rounding as the digits not kept do
DivFinite(s, d, e) ==
    LET Quot[x \in [q : BigNat, r : Nat]] ==
            IF x.r = 0 \/ x.q = <<>> \/ BIsOdd(x.q) THEN Round(s, x.q, e)
            ELSE Round(s, [x.q EXCEPT ![1] = @ + 1], e)
    IN  Quot[d]

\* a / k for a size_t k < 2 * Base: 0.0 / 0 is NaN, any other a / 0 is the
\* infinity of the sign of a; a division by 2^j that leaves the exponent in
\* range only lowers the exponent
DDivN(a, k) ==
    LET Div[x \in Doubles, d \in Nat, j \in Int] ==
            IF IsNaN(x) THEN NaN
            ELSE IF d = 0 THEN (IF IsZeroDouble(x) THEN NaN ELSE Inf(x.s))
            ELSE IF IsInf(x) \/ IsZeroDouble(x) THEN x
            ELSE IF d = Pow2(j) /\ x.e - j >= EMin
            THEN Finite(x.s, x.m, x.e - j)
            ELSE DivFinite(x.s, BDivSmall(BShl(x.m, DivBits), d),
                           x.e - DivBits)
    IN  Div[a, k, IntBitLen(k) - 1]

\* the double double(n) / double(d) of integers n and d > 0
Rat(n, d) == DDivN(ToDouble(n), d)

\* -1, 0 or 1 as |a| is below, equal to or above |b|, neither being NaN
CmpMagnitude(a, b) ==
    IF a.e < b.e THEN 0 - 1
    ELSE IF a.e > b.e THEN 1
    ELSE BCmp(a.m, b.m)

\* a <= b: false whenever an operand is NaN; -0 and +0 are equal
DLeq(a, b) ==
    LET Leq[x \in Doubles, y \in Doubles] ==
            /\ ~IsNaN(x)
            /\ ~IsNaN(y)
            /\ \/ IsZeroDouble(x) /\ IsZeroDouble(y)
               \/ x.s = 1 /\ y.s = 0
               \/ x.s = 0 /\ y.s = 0 /\ CmpMagnitude(x, y) <= 0
               \/ x.s = 1 /\ y.s = 1 /\ CmpMagnitude(x, y) >= 0
    IN  Leq[a, b]

(***************************************************************************)
(* Fitted trajectories                                                     *)
(***************************************************************************)
\* one track state of a MultiTrajectory: its reference surface, whether it
\* carries TrackStateFlag::MeasurementFlag, and calibratedSize()
MeasurementState(s, d) ==
    [surface |-> s, isMeasurement |-> TRUE, calibratedSize |-> d]
OtherState(s) ==
    [surface |-> s, isMeasurement |-> FALSE, calibratedSize |-> 0]
TrackStates ==
    {MeasurementState(s, d) : s \in Surfaces, d \in MeasDims}
        \cup {OtherState(s) : s \in Surfaces}

\* sequences over S of length at most n
SeqUpTo(S, n) == UNION {[1..k -> S] : k \in 0..n}

RECURSIVE SumSeq(_)
SumSeq(q) == IF q = <<>> THEN 0 ELSE Head(q) + SumSeq(Tail(q))

(***************************************************************************)
(* Acts::detail::trackAlignmentState                                       *)
(***************************************************************************)
\* the flag isAlignable recorded with a measurement state: it is
\* initialised to false and never assigned
IsAlignableFlag(surface, idxedAlignSurfaces) == FALSE

\* variant: only the measurement states on registered surfaces are kept
MeasurementStatesOfAlignableOnly(states, idxedAlignSurfaces) ==
    LET n == Len(states)
        backwards == [k \in 1..n |-> n + 1 - k]
        visited == SelectSeq(backwards,
                       LAMBDA i : /\ states[i].isMeasurement
                                  /\ states[i].surface \in
                                         DOMAIN idxedAlignSurfaces)
    IN  [k \in 1..Len(visited) |->
            [index |-> visited[k], isAlignable |-> FALSE]]

\* the track-state indices of the measurement states in the order
\* visitBackwards meets them (last state first), each with its flag
MeasurementStatesOf(states, idxedAlignSurfaces) ==
    LET n == Len(states)
        backwards == [k \in 1..n |-> n + 1 - k]
        visited == SelectSeq(backwards, LAMBDA i : states[i].isMeasurement)
    IN  [k \in 1..Len(visited) |->
            [index |-> visited[k],
             isAlignable |->
                 IsAlignableFlag(states[visited[k]].surface,
                                 idxedAlignSurfaces)]]

\* nAlignSurfaces: incremented once per measurement state whose reference
\* surface is found in idxedAlignSurfaces
CountAlignSurfaces(states, idxedAlignSurfaces) ==
    Cardinality({i \in 1..Len(states) :
                    /\ states[i].isMeasurement
                    /\ states[i].surface \in DOMAIN idxedAlignSurfaces})

\* alignedSurfaces after the visit: operator[] creates the entry (0, 0) and
\* .first receives the global index
VisitedAlignedSurfaces(states, idxedAlignSurfaces) ==
    LET hit == {states[i].surface : i \in {j \in 1..Len(states) :
                                              states[j].isMeasurement}}
    IN  [s \in hit \cap DOMAIN idxedAlignSurfaces |->
            <<idxedAlignSurfaces[s], 0>>]

\* the fill loop over measurementStates from position k on: a state flagged
\* alignable takes the next lower local index iSurface
RECURSIVE FillLocalIndices(_, _, _, _, _)
FillLocalIndices(states, measurementStates, k, iSurface, alignedSurfaces) ==
    IF k > Len(measurementStates) THEN alignedSurfaces
    ELSE LET ms == measurementStates[k]
             surface == states[ms.index].surface
         IN  IF ms.isAlignable
             THEN FillLocalIndices(states, measurementStates, k + 1,
                     iSurface - 1,
                     [alignedSurfaces EXCEPT
                         ![surface] = <<@[1], iSurface - 1>>])
             ELSE FillLocalIndices(states, measurementStates, k + 1,
                     iSurface, alignedSurfaces)

\* rows and columns of the matrices and vectors a TrackAlignmentState with
\* alignable surfaces is given (lines 154-170 and 240-251)
MatrixShapes(measurementDim, trackParametersDim, alignmentDof) ==
    [measurementCovariance |-> <<measurementDim, measurementDim>>,
     projectionMatrix |-> <<measurementDim, trackParametersDim>>,
     alignmentToResidualDerivative |-> <<measurementDim, alignmentDof>>,
     trackParametersCovariance |-> <<trackParametersDim, trackParametersDim>>,
     residual |-> <<measurementDim, 1>>,
     residualCovariance |-> <<measurementDim, measurementDim>>,
     alignmentToChi2Derivative |-> <<alignmentDof, 1>>,
     alignmentToChi2SecondDerivative |-> <<alignmentDof, alignmentDof>>]

\* variant: a block is placed at the running offsets before they are lowered
RECURSIVE FillBlocksLowerAfter(_, _, _, _, _, _)
FillBlocksLowerAfter(states, ms, k, iMeasurement, iParams, filled) ==
    IF k > Len(ms)
    THEN [blocks |-> filled, iMeasurement |-> iMeasurement,
          iParams |-> iParams]
    ELSE LET rowStateIndex == ms[k].index
             measdim == states[rowStateIndex].calibratedSize
         IN  FillBlocksLowerAfter(states, ms, k + 1,
                 iMeasurement - measdim, iParams - eBoundParametersSize,
                 Append(filled, [rowStateIndex |-> rowStateIndex,
                                 measdim |-> measdim,
                                 iMeasurement |-> iMeasurement,
                                 iParams |-> iParams]))

\* lines 182-206: the fill loop over measurementStates from position k on;
\* the running offsets are lowered by the size of the state, then the
\* measurement covariance, the projection and the residual of the state are
\* written at them. The result holds the blocks in the order they were
\* filled and the running offsets the loop ends with.
RECURSIVE FillBlocks(_, _, _, _, _, _)
FillBlocks(states, measurementStates, k, iMeasurement, iParams, filled) ==
    IF k > Len(measurementStates)
    THEN [blocks |-> filled, iMeasurement |-> iMeasurement,
          iParams |-> iParams]
    ELSE LET rowStateIndex == measurementStates[k].index
             measdim == states[rowStateIndex].calibratedSize
         IN  FillBlocks(states, measurementStates, k + 1,
                 iMeasurement - measdim, iParams - eBoundParametersSize,
                 Append(filled, [rowStateIndex |-> rowStateIndex,
                                 measdim |-> measdim,
                                 iMeasurement |-> iMeasurement - measdim,
                                 iParams |-> iParams - eBoundParametersSize]))

\* variant: the columns follow the order of measurementStates
CovarianceColumnForward(trackParametersDim, iColState) ==
    iColState * eBoundParametersSize

\* line 229: the first column of the blocks of the state at position
\* iColState (from 0) of measurementStates
CovarianceColumn(trackParametersDim, iColState) ==
    trackParametersDim - (iColState + 1) * eBoundParametersSize

\* lines 216-233: for the state of every filled block and every column
\* state, the block (stateRowIndices.at(rowStateIndex),
\* stateRowIndices.at(colStateIndex)) of the source covariance is written at
\* (iParams, iCol) of trackParametersCovariance
FillCovariance(measurementStates, blocks, trackParametersDim) ==
    {[iParams |-> blocks[k].iParams,
      iCol |-> CovarianceColumn(trackParametersDim, iColState),
      rowStateIndex |-> blocks[k].rowStateIndex,
      colStateIndex |-> measurementStates[iColState + 1].index] :
        k \in 1..Len(blocks),
        iColState \in 0..(Len(measurementStates) - 1)}

\* the TrackAlignmentState of one fitted trajectory; residualChi2 stands for
\* residual^T * measurementCovariance^-1 * residual of its states
trackAlignmentState(states, residualChi2, idxedAlignSurfaces) ==
    LET measurementStates == MeasurementStatesOf(states, idxedAlignSurfaces)
        nAlignSurfaces == CountAlignSurfaces(states, idxedAlignSurfaces)
        visited == VisitedAlignedSurfaces(states, idxedAlignSurfaces)
        measurementDim ==
            SumSeq([k \in 1..Len(measurementStates) |->
                       states[measurementStates[k].index].calibratedSize])
        trackParametersDim == eBoundParametersSize * Len(measurementStates)
        filled == FillBlocks(states, measurementStates, 1, measurementDim,
                             trackParametersDim, <<>>)
    IN  IF nAlignSurfaces = 0
        THEN [alignedSurfaces |-> visited,
              measurementDim |-> measurementDim,
              trackParametersDim |-> 0,
              alignmentDof |-> 0,
              chi2 |-> 0]
        ELSE [alignedSurfaces |->
                  FillLocalIndices(states, measurementStates, 1,
                                   nAlignSurfaces, visited),
              measurementDim |-> measurementDim,
              trackParametersDim |-> trackParametersDim,
              alignmentDof |-> eAlignmentParametersSize * nAlignSurfaces,
              filledBlocks |-> filled.blocks,
              iMeasurement |-> filled.iMeasurement,
              iParams |-> filled.iParams,
              trackParametersCovariance |->
                  FillCovariance(measurementStates, filled.blocks,
                                 trackParametersDim),
              chi2 |-> residualChi2]

\* the function the call of lines 181-183 of Alignment.hpp names:
\* trackAlignmentState with the geometry context first and the alignment
\* mask last. Its body is the one above, evaluated for the parameters the
\* mask leaves free: the state carries the mask it was evaluated with. The
\* body takes no derivative with respect to the alignment parameters
\* (lines 161-163), so nothing else of the state depends on gctx or on
\* the mask.
trackAlignmentStateMasked(gctx, states, residualChi2, idxed, alignMask) ==
    LET state == trackAlignmentState(states, residualChi2, idxed)
    IN  state @@ [alignMask |-> alignMask]

(***************************************************************************)
(* Inputs of a run                                                         *)
(***************************************************************************)
\* the surface of a detector element
SurfaceOf(element) == element

\* the ordered lists of distinct detector elements to align
ElementLists ==
    {q \in SeqUpTo(Elements, Cardinality(Elements)) :
        \A i, j \in 1..Len(q) : q[i] = q[j] => i = j}

\* a source link: the surface and dimension of one measurement
SourceLink(s, d) == [surface |-> s, dim |-> d]

\* the source-link sequences a track of the input collection may hold
InputTracks ==
    {<<SourceLink(1, 1)>>, <<SourceLink(1, 1), SourceLink(2, 1)>>}

\* the configured cut-offs
CutOffs == {Rat(1, 2)}
Tolerances == {Rat(1, 2)}

\* the start parameters of a track, with the surface they refer to
StartParameters == {[referenceSurface |-> "perigee"]}

\* one start parameter for each track of a collection: what
\* AlignmentAlgorithm::execute tests before it calls align
StartsOf(trajectories) == [1..Len(trajectories) -> StartParameters]

\* the fitter: it fails, or returns one measurement state per source link
\* together with the residuals that give the track's chi2
FitFailure == [ok |-> FALSE, error |-> "FitFailure"]
FitResults(sourcelinks, sParameters) ==
    {FitFailure} \cup
    {[ok |-> TRUE,
      fittedStates |-> [k \in 1..Len(sourcelinks) |->
                           MeasurementState(sourcelinks[k].surface,
                                            sourcelinks[k].dim)],
      chi2 |-> c] : c \in Chi2Values}

\* the summed calibratedSize of the measurement states of a trajectory
StatesMeasurementDim(states) ==
    SumSeq([k \in 1..Len(states) |->
               IF states[k].isMeasurement THEN states[k].calibratedSize
               ELSE 0])

(***************************************************************************)
(* State                                                                   *)
(***************************************************************************)
VARIABLES
    alignOptions,            \* AlignmentOptions of the run
    trajectoryCollection,    \* the input tracks (source links)
    startParametersCollection, \* the start parameters of the fits
    transform,               \* geometry: element -> formal transform
    pc,                      \* position in align / updateAlignmentParameters
    iIter,                   \* loop counter of align
    converged,               \* local flag of align
    recentChi2ONdf,          \* std::queue of recent averageChi2ONdf
    alignRes,                \* the AlignmentResult of the run
    returned,                \* what align returned
    idxedAlignSurfaces,      \* surface -> index built by the update step
    iTraj,                   \* loop counter over the tracks
    sumChi2Derivative,       \* slot -> formal sum of 6-segments
    sumChi2SecondDerivative, \* <<slot, slot>> -> formal sum of 6x6 blocks
    sumChi2ONdf,             \* running sum of chi2 / measurementDim
    pending,                 \* registry entries the update loop has not met
    fitOutput,               \* result of the last fit
    alignState,              \* result of the last trackAlignmentState
    evaluateRes,             \* result of the last track evaluation
    usedChi2ONdf,            \* track -> chi2 / ndf of the tracks added
    usedTracks,              \* track -> chi2 and measurementDim it added
    updaterCalls,            \* updater calls of the current iteration
    chi2History,             \* averageChi2ONdf of every checked iteration
    alignmentMask,           \* the mask handed to the current iteration
    inverseHasNaN            \* sumChi2SecondDerivativeInverse.hasNaN()

config == <<alignOptions, trajectoryCollection, startParametersCollection>>
alignLocals == <<iIter, converged, recentChi2ONdf, chi2History,
                 alignmentMask>>
updateLocals == <<idxedAlignSurfaces, iTraj, sumChi2Derivative,
                  sumChi2SecondDerivative, sumChi2ONdf, pending,
                  inverseHasNaN>>
trackEval == <<fitOutput, alignState, evaluateRes, usedChi2ONdf,
               usedTracks>>
vars == <<config, transform, pc, alignLocals, alignRes, returned,
          updateLocals, trackEval, updaterCalls>>

None == [ok |-> FALSE, error |-> "none"]
EmptyMap == <<>>

\* std::bitset<eAlignmentParametersSize>: one bit per alignment parameter
AllFree == [b \in 1..eAlignmentParametersSize |-> 1]
FixedRotation == <<1, 1, 1, 0, 0, 0>>
AllFixed == [b \in 1..eAlignmentParametersSize |-> 0]
\* no mask has been selected yet
NoMask == <<>>

\* AlignmentResult as default-constructed
NewAlignmentResult ==
    [deltaAlignmentParameters |-> EmptyMap,
     alignedParameters |-> EmptyMap,
     alignmentCovariance |-> EmptyMap,
     averageChi2ONdf |-> DoubleMax,
     deltaChi2 |-> DoubleMax,
     chi2 |-> 0,
     measurementDim |-> 0,
     alignmentDof |-> 0,
     numTracks |-> 0,
     result |-> "success"]

\* the geometry before the run: no element has been moved
InitialTransform == [e \in Elements |-> <<>>]

Init ==
    /\ alignOptions \in
           [alignedDetElements : ElementLists,
            averageChi2ONdfCutOff : CutOffs,
            deltaAverageChi2ONdfCutOff : (1..MaxWindow) \X Tolerances,
            maxIterations : 0..MaxIters,
            iterationState : {EmptyMap}]
    /\ trajectoryCollection \in SeqUpTo(InputTracks, MaxTracks)
    /\ startParametersCollection \in StartsOf(trajectoryCollection)
    /\ transform = InitialTransform
    /\ pc = "align"
    /\ iIter = 0
    /\ converged = FALSE
    /\ recentChi2ONdf = <<>>
    /\ alignRes = NewAlignmentResult
    /\ returned = "nothing"
    /\ idxedAlignSurfaces = EmptyMap
    /\ iTraj = 0
    /\ sumChi2Derivative = EmptyMap
    /\ sumChi2SecondDerivative = EmptyMap
    /\ sumChi2ONdf = ToDouble(0)
    /\ pending = {}
    /\ fitOutput = None
    /\ alignState = None
    /\ evaluateRes = None
    /\ usedChi2ONdf = EmptyMap
    /\ usedTracks = EmptyMap
    /\ updaterCalls = <<>>
    /\ chi2History = <<>>
    /\ alignmentMask = NoMask
    /\ inverseHasNaN = FALSE

(***************************************************************************)
(* FW::Alignment::evaluateTrackAlignmentState                              *)
(***************************************************************************)
\* variant: a failed fit is reported as a track without alignment dof
evaluateTrackAlignmentStateWrongError(gctx, fitRes, idxed, alignMask) ==
    IF ~fitRes.ok
    THEN [ok |-> FALSE, error |-> "NoAlignmentDofOnTrack"]
    ELSE LET state ==
                 trackAlignmentStateMasked(gctx, fitRes.fittedStates,
                                           fitRes.chi2, idxed, alignMask)
         IN  IF state.alignmentDof = 0
             THEN [ok |-> FALSE, error |-> "NoAlignmentDofOnTrack"]
             ELSE [ok |-> TRUE, value |-> state]

\* variant: the test alignmentDof == 0 is missing
evaluateTrackAlignmentStateNoDofTest(gctx, fitRes, idxed, alignMask) ==
    IF ~fitRes.ok
    THEN [ok |-> FALSE, error |-> fitRes.error]
    ELSE [ok |-> TRUE,
          value |-> trackAlignmentStateMasked(gctx, fitRes.fittedStates,
                                              fitRes.chi2, idxed, alignMask)]

evaluateTrackAlignmentState(gctx, fitRes, idxed, alignMask) ==
    IF ~fitRes.ok
    THEN [ok |-> FALSE, error |-> fitRes.error]
    ELSE LET state ==
                 trackAlignmentStateMasked(gctx, fitRes.fittedStates,
                                           fitRes.chi2, idxed, alignMask)
         IN  IF state.alignmentDof = 0
             THEN [ok |-> FALSE, error |-> "NoAlignmentDofOnTrack"]
             ELSE [ok |-> TRUE, value |-> state]

(***************************************************************************)
(* FW::Alignment::updateAlignmentParameters                                *)
(***************************************************************************)
\* variant: a later element with the same surface overwrites the index
IndexAlignSurfacesKeepLast(alignedDetElements) ==
    LET n == Len(alignedDetElements)
        last(s) == CHOOSE i \in 1..n :
                       /\ SurfaceOf(alignedDetElements[i]) = s
                       /\ \A j \in (i + 1)..n :
                              SurfaceOf(alignedDetElements[j]) # s
    IN  [s \in {SurfaceOf(alignedDetElements[i]) : i \in 1..n} |->
            last(s) - 1]

\* idxedAlignSurfaces: emplace keeps the first index given to a surface
IndexAlignSurfaces(alignedDetElements) ==
    LET n == Len(alignedDetElements)
        first(s) == CHOOSE i \in 1..n :
                        /\ SurfaceOf(alignedDetElements[i]) = s
                        /\ \A j \in 1..(i - 1) :
                               SurfaceOf(alignedDetElements[j]) # s
    IN  [s \in {SurfaceOf(alignedDetElements[i]) : i \in 1..n} |->
            first(s) - 1]

\* alignResult.numTracks as set before the loop over the tracks
CountTracks(trajectories) == Len(trajectories)

\* the slots of a global vector of alignmentDof entries
SlotsOf(alignmentDof) == 0..((alignmentDof \div eAlignmentParametersSize) - 1)

\* sumChi2Derivative.segment(dstRow * 6) += local segment srcRow
AddSegments(sum, state, it, tr) ==
    LET as == state.alignedSurfaces
    IN  [slot \in DOMAIN sum |->
            sum[slot] \cup {<<it, tr, as[s][2]>> :
                               s \in {x \in DOMAIN as : as[x][1] = slot}}]

\* sumChi2SecondDerivative.block(dstRow * 6, dstCol * 6) += local block
\* (srcRow, srcCol)
AddBlocks(sum, state, it, tr) ==
    LET as == state.alignedSurfaces
    IN  [rc \in DOMAIN sum |->
            sum[rc] \cup {<<it, tr, as[r][2], as[c][2]>> :
                             r \in {x \in DOMAIN as : as[x][1] = rc[1]},
                             c \in {x \in DOMAIN as : as[x][1] = rc[2]}}]

\* alignResult.averageChi2ONdf after the loop over the tracks
AverageChi2ONdf(sum, numTracks) == DDivN(sum, numTracks)

\* a segment of eAlignmentParametersSize zeros
ZeroSegment == [k \in 1..eAlignmentParametersSize |-> 0]
\* a segment whose entries the fitted values decide
OpenSegment == <<>>

\* the entries of a local segment of alignmentToChi2Derivative, and of each
\* row of a local block of alignmentToChi2SecondDerivative: both are
\* products with alignmentToResidualDerivative, which is set to Zero and
\* never filled, so with finite covariances every entry is 0
LocalSegmentValue(term) == ZeroSegment

\* the entries of a summed segment or of a row of a summed block
RECURSIVE SummedValue(_)
SummedValue(terms) ==
    IF terms = {} THEN ZeroSegment
    ELSE LET t == CHOOSE x \in terms : TRUE
         IN  [k \in 1..eAlignmentParametersSize |->
                 LocalSegmentValue(t)[k] + SummedValue(terms \ {t})[k]]

\* every entry of the summed vector or matrix is 0
IsZero(sum) == \A i \in DOMAIN sum : SummedValue(sum[i]) = ZeroSegment

\* sumChi2SecondDerivative.inverse().hasNaN(): the inverse of a zero matrix
\* with at least one row holds NaN, that of the empty matrix none
InverseHasNaN(secondDerivative) ==
    DOMAIN secondDerivative # {} /\ IsZero(secondDerivative)

\* -sumChi2SecondDerivative.fullPivLu().solve(sumChi2Derivative): segment
\* slot of the solution of the system summed in iteration it; the solution
\* for a zero right-hand side is zero
SolveDelta(secondDerivative, derivative, it) ==
    [slot \in DOMAIN derivative |->
        [iteration |-> it, slot |-> slot,
         value |-> IF IsZero(derivative) THEN ZeroSegment ELSE OpenSegment]]

\* variant: the delta angles are added in the order the old angles are
\* stored in, (Z, Y, X)
NewTransformRotationReversed(oldTransform, deltaAlignmentParam) ==
    Append(oldTransform,
           [iteration |-> deltaAlignmentParam.iteration,
            slot |-> deltaAlignmentParam.slot,
            value |-> deltaAlignmentParam.value,
            deltaCenter |-> [k \in 0..2 |-> eAlignmentCenter0 + k],
            rotZ |-> eAlignmentRotation0 + 0,
            rotY |-> eAlignmentRotation0 + 1,
            rotX |-> eAlignmentRotation0 + 2])

\* lines 340-358: Translation3D(oldCenter + deltaCenter) * (rotZ * rotY *
\* rotX) with the angles shifted by the delta: the old transform moved by
\* one segment. A move records the segment and the entry of it that went
\* into each component of the centre and into each rotation angle.
NewTransform(oldTransform, deltaAlignmentParam) ==
    Append(oldTransform,
           [iteration |-> deltaAlignmentParam.iteration,
            slot |-> deltaAlignmentParam.slot,
            value |-> deltaAlignmentParam.value,
            deltaCenter |-> [k \in 0..2 |-> eAlignmentCenter0 + k],
            rotZ |-> eAlignmentRotation0 + 2,
            rotY |-> eAlignmentRotation0 + 1,
            rotX |-> eAlignmentRotation0 + 0])

\* variant: chi2 and measurementDim go on from the iteration before
BeginUpdateNoReset ==
    LET idxed == IndexAlignSurfaces(alignOptions.alignedDetElements)
        dof == Cardinality(DOMAIN idxed) * eAlignmentParametersSize
    IN  /\ idxedAlignSurfaces' = idxed
        /\ alignRes' = [alignRes EXCEPT
               !.alignmentDof = dof,
               !.numTracks = CountTracks(trajectoryCollection)]
        /\ sumChi2Derivative' = [slot \in SlotsOf(dof) |-> {}]
        /\ sumChi2SecondDerivative' =
               [rc \in SlotsOf(dof) \X SlotsOf(dof) |-> {}]
        /\ sumChi2ONdf' = ToDouble(0)
        /\ iTraj' = 0
        /\ pending' = {}
        /\ inverseHasNaN' = FALSE
        /\ usedChi2ONdf' = EmptyMap
        /\ usedTracks' = EmptyMap
        /\ updaterCalls' = <<>>

\* lines 219-248: build the registry and reset the sums
BeginUpdate ==
    LET idxed == IndexAlignSurfaces(alignOptions.alignedDetElements)
        dof == Cardinality(DOMAIN idxed) * eAlignmentParametersSize
    IN  /\ idxedAlignSurfaces' = idxed
        /\ alignRes' = [alignRes EXCEPT
               !.alignmentDof = dof,
               !.chi2 = 0,
               !.measurementDim = 0,
               !.numTracks = CountTracks(trajectoryCollection)]
        /\ sumChi2Derivative' = [slot \in SlotsOf(dof) |-> {}]
        /\ sumChi2SecondDerivative' =
               [rc \in SlotsOf(dof) \X SlotsOf(dof) |-> {}]
        /\ sumChi2ONdf' = ToDouble(0)
        /\ iTraj' = 0
        /\ pending' = {}
        /\ inverseHasNaN' = FALSE
        /\ usedChi2ONdf' = EmptyMap
        /\ usedTracks' = EmptyMap
        /\ updaterCalls' = <<>>

\* variant: one iteration too many
LoopContinuesOneMore(i, maxIterations) == i <= maxIterations

\* line 404: the loop condition of align
LoopContinues(i, maxIterations) == i < maxIterations

\* variant: the mask configured for the following iteration is taken
SelectMaskOfNextIteration(iterationState, i) ==
    IF i + 1 \in DOMAIN iterationState THEN iterationState[i + 1]
    ELSE AllFree

\* lines 406-411: the mask of iteration i
SelectMask(iterationState, i) ==
    IF i \in DOMAIN iterationState THEN iterationState[i] ELSE AllFree

\* lines 404-415: one more pass of the loop of align selects the mask and
\* enters updateAlignmentParameters
AlignIterate ==
    /\ pc = "align"
    /\ LoopContinues(iIter, alignOptions.maxIterations)
    /\ alignmentMask' = SelectMask(alignOptions.iterationState, iIter)
    /\ BeginUpdate
    /\ pc' = "evaluate"
    /\ UNCHANGED <<config, transform, iIter, converged, recentChi2ONdf,
                   chi2History, returned, fitOutput, alignState, evaluateRes>>

\* variant: the loop over the tracks stops one track short
TrackLoopStopsEarly(i, numTrajectories) == i + 1 < numTrajectories

\* line 249: the loop condition over the tracks
TrackLoopContinues(i, numTrajectories) == i < numTrajectories

\* line 251: startParametersCollection.at(i) returns an entry
HasStartParameters(startParameters, i) == i < Len(startParameters)

\* lines 249-290: fit and evaluate track iTraj, skip it or add it to the sums
EvaluateTrack ==
    /\ pc = "evaluate"
    /\ TrackLoopContinues(iTraj, Len(trajectoryCollection))
    /\ HasStartParameters(startParametersCollection, iTraj)
    /\ \E fitRes \in FitResults(trajectoryCollection[iTraj + 1],
                                 startParametersCollection[iTraj + 1]) :
         /\ fitOutput' = fitRes
         /\ \E res \in {evaluateTrackAlignmentState(transform, fitRes,
                                                    idxedAlignSurfaces,
                                                    alignmentMask)} :
             /\ alignState' =
                    IF res.ok THEN res.value
                    ELSE IF fitRes.ok
                    THEN trackAlignmentStateMasked(transform,
                             fitRes.fittedStates, fitRes.chi2,
                             idxedAlignSurfaces, alignmentMask)
                    ELSE None
             /\ evaluateRes' = res
             /\ IF ~res.ok
                THEN UNCHANGED <<sumChi2Derivative, sumChi2SecondDerivative,
                                 alignRes, sumChi2ONdf, usedChi2ONdf,
                                 usedTracks>>
                ELSE /\ usedTracks' =
                            [t \in DOMAIN usedTracks \cup {iTraj} |->
                                IF t = iTraj
                                THEN [chi2 |-> res.value.chi2,
                                      measurementDim |->
                                          res.value.measurementDim]
                                ELSE usedTracks[t]]
                     /\ usedChi2ONdf' =
                            [t \in DOMAIN usedChi2ONdf \cup {iTraj} |->
                                IF t = iTraj
                                THEN Rat(fitRes.chi2,
                                         StatesMeasurementDim(fitRes.fittedStates))
                                ELSE usedChi2ONdf[t]]
                     /\ sumChi2Derivative' =
                            AddSegments(sumChi2Derivative, res.value,
                                        iIter, iTraj)
                     /\ sumChi2SecondDerivative' =
                            AddBlocks(sumChi2SecondDerivative, res.value,
                                      iIter, iTraj)
                     /\ alignRes' = [alignRes EXCEPT
                            !.chi2 = @ + res.value.chi2,
                            !.measurementDim = @ + res.value.measurementDim]
                     /\ sumChi2ONdf' =
                            DAdd(sumChi2ONdf,
                                 DDivN(ToDouble(res.value.chi2),
                                       res.value.measurementDim))
    /\ iTraj' = iTraj + 1
    /\ UNCHANGED <<config, transform, pc, alignLocals, returned,
                   idxedAlignSurfaces, pending, inverseHasNaN, updaterCalls>>

\* variant: the return that line 304 holds as a comment is executed
NaNInverseIsErrorAsCommented(hasNaN) == hasNaN

\* lines 302-305: an inverse with NaN is logged, nothing is returned
NaNInverseIsError(hasNaN) == FALSE

\* lines 291-322: average chi2/ndf, inverse, solve for the delta, covariance
SolveAlignment ==
    /\ pc = "evaluate"
    /\ ~TrackLoopContinues(iTraj, Len(trajectoryCollection))
    /\ inverseHasNaN' = InverseHasNaN(sumChi2SecondDerivative)
    /\ IF NaNInverseIsError(inverseHasNaN')
       THEN /\ alignRes' = [alignRes EXCEPT
                   !.averageChi2ONdf =
                       AverageChi2ONdf(sumChi2ONdf, alignRes.numTracks)]
            /\ returned' = "AlignmentParametersUpdateFailure"
            /\ pc' = "done"
            /\ UNCHANGED pending
       ELSE /\ alignRes' = [alignRes EXCEPT
                   !.averageChi2ONdf =
                       AverageChi2ONdf(sumChi2ONdf, alignRes.numTracks),
                   !.deltaAlignmentParameters =
                       SolveDelta(sumChi2SecondDerivative, sumChi2Derivative,
                                  iIter),
                   !.alignmentCovariance = sumChi2SecondDerivative,
                   !.deltaChi2 = <<sumChi2Derivative, iIter>>]
            /\ pending' = {<<s, idxedAlignSurfaces[s]>> :
                               s \in DOMAIN idxedAlignSurfaces}
            /\ pc' = "update"
            /\ UNCHANGED returned
    /\ UNCHANGED <<config, transform, alignLocals, idxedAlignSurfaces, iTraj,
                   sumChi2Derivative, sumChi2SecondDerivative, sumChi2ONdf,
                   trackEval, updaterCalls>>

\* variant: the updater's answer is ignored
UpdateRejectedNever(updated) == FALSE

\* line 369: the updater's answer is a failure
UpdateRejected(updated) == ~updated

\* variant: a rejected call undoes the moves of the current iteration
TransformsAfterCallWithRollback(stored, element, newTransform, updated) ==
    IF updated
    THEN [stored EXCEPT ![element] = newTransform]
    ELSE [e \in DOMAIN stored |->
             IF /\ stored[e] # <<>>
                /\ stored[e][Len(stored[e])].iteration =
                       newTransform[Len(newTransform)].iteration
             THEN SubSeq(stored[e], 1, Len(stored[e]) - 1)
             ELSE stored[e]]

\* lines 367-372: the updater stores the transform it accepts; after a
\* rejected call the geometry is as the earlier calls left it
TransformsAfterCall(stored, element, newTransform, updated) ==
    IF updated
    THEN [stored EXCEPT ![element] = newTransform]
    ELSE stored

\* the slot index lies within a vector of alignmentDof entries: the bounds
\* that segment(6 * index, 6) and block(6 * row, 6 * col) require
SlotInside(index, alignmentDof) ==
    eAlignmentParametersSize * (index + 1) <= alignmentDof

\* lines 336-338: the segment of slot index; a slot beyond the end of the
\* vector reads entries that are not its own, whose value is unknown
DeltaSegment(deltaAlignmentParameters, index, it) ==
    IF index \in DOMAIN deltaAlignmentParameters
    THEN deltaAlignmentParameters[index]
    ELSE [iteration |-> it, slot |-> index, value |-> OpenSegment]

\* lines 326-373: one pass of the loop over idxedAlignSurfaces (an
\* unordered_map: the order of its entries is not fixed); the updater
\* stores the new transform when it accepts it
UpdateTransform ==
    /\ pc = "update"
    /\ pending # {}
    /\ \E entry \in pending, updated \in BOOLEAN :
         LET surface == entry[1]
             index == entry[2]
             element == alignOptions.alignedDetElements[index + 1]
             newTransform ==
                 NewTransform(transform[surface],
                              DeltaSegment(alignRes.deltaAlignmentParameters,
                                           index, iIter))
         IN  /\ updaterCalls' =
                    Append(updaterCalls,
                           [element |-> element, index |-> index,
                            updated |-> updated])
             /\ transform' = TransformsAfterCall(transform, element,
                                                 newTransform, updated)
             /\ IF UpdateRejected(updated)
                THEN /\ returned' = "AlignmentParametersUpdateFailure"
                     /\ pc' = "done"
                     /\ UNCHANGED pending
                ELSE /\ pending' = pending \ {entry}
                     /\ UNCHANGED <<returned, pc>>
    /\ UNCHANGED <<config, alignLocals, alignRes, idxedAlignSurfaces, iTraj,
                   sumChi2Derivative, sumChi2SecondDerivative, sumChi2ONdf,
                   inverseHasNaN, trackEval>>

(***************************************************************************)
(* FW::Alignment::align                                                    *)
(***************************************************************************)
\* variant: strictly below the cut-off
BelowCutOffStrict(averageChi2ONdf, cutOff) ==
    DLeq(averageChi2ONdf, cutOff) /\ averageChi2ONdf # cutOff

\* line 426
BelowCutOff(averageChi2ONdf, cutOff) == DLeq(averageChi2ONdf, cutOff)

\* variant: the size test passes one entry early
WindowFullOneShort(recent, window) == Len(recent) + 1 >= window

\* line 434
WindowFull(recent, window) == Len(recent) >= window

\* variant: strictly within the tolerance
WithinToleranceStrict(front, averageChi2ONdf, tolerance) ==
    /\ DLeq(DAbs(DSub(front, averageChi2ONdf)), tolerance)
    /\ DAbs(DSub(front, averageChi2ONdf)) # tolerance

\* line 436
WithinTolerance(front, averageChi2ONdf, tolerance) ==
    DLeq(DAbs(DSub(front, averageChi2ONdf)), tolerance)

\* variant: the current value is stored and nothing is evicted
PushRecentNoEvict(recent, window, averageChi2ONdf) ==
    Append(recent, averageChi2ONdf)

\* lines 448 and 451: the queue once the current value is stored
PushRecent(recent, window, averageChi2ONdf) ==
    IF WindowFull(recent, window)
    THEN Append(Tail(recent), averageChi2ONdf)
    ELSE Append(recent, averageChi2ONdf)

\* lines 434-436: the second test is reached and the size test passes on a
\* queue that holds nothing (a window length of 0): front() has no entry
\* to return
ReadsEmptyWindow ==
    /\ ~BelowCutOff(alignRes.averageChi2ONdf,
                    alignOptions.averageChi2ONdfCutOff)
    /\ WindowFull(recentChi2ONdf, alignOptions.deltaAverageChi2ONdfCutOff[1])
    /\ recentChi2ONdf = <<>>

\* lines 375 and 416-452: the update step returned success; test for
\* convergence, break or go on with the next iteration
CheckConvergence ==
    /\ pc = "update"
    /\ pending = {}
    /\ ~ReadsEmptyWindow
    /\ LET avg == alignRes.averageChi2ONdf
           window == alignOptions.deltaAverageChi2ONdfCutOff[1]
           tolerance == alignOptions.deltaAverageChi2ONdfCutOff[2]
       IN  /\ chi2History' = Append(chi2History, avg)
           /\ IF BelowCutOff(avg, alignOptions.averageChi2ONdfCutOff)
              THEN /\ converged' = TRUE
                   /\ pc' = "finish"
                   /\ UNCHANGED <<iIter, recentChi2ONdf>>
              ELSE IF /\ WindowFull(recentChi2ONdf, window)
                      /\ WithinTolerance(Head(recentChi2ONdf), avg, tolerance)
              THEN /\ converged' = TRUE
                   /\ pc' = "finish"
                   /\ UNCHANGED <<iIter, recentChi2ONdf>>
              ELSE /\ recentChi2ONdf' = PushRecent(recentChi2ONdf, window, avg)
                   /\ iIter' = iIter + 1
                   /\ pc' = "align"
                   /\ UNCHANGED converged
    /\ UNCHANGED <<config, transform, alignRes, returned, updateLocals,
                   trackEval, updaterCalls, alignmentMask>>

\* variant: the result is never marked
FinalResultAlwaysSuccess(isConverged) == "success"

\* line 454-457
FinalResult(isConverged) == IF isConverged THEN "success" ELSE "ConvergeFailure"

\* lines 453-479: the loop is left by break or because iIter reached
\* maxIterations; mark the result, record the transforms, return it
AlignReturn ==
    /\ \/ pc = "finish"
       \/ pc = "align" /\ ~LoopContinues(iIter, alignOptions.maxIterations)
    /\ alignRes' = [alignRes EXCEPT
           !.result = IF FinalResult(converged) = "success" THEN @
                      ELSE FinalResult(converged),
           !.alignedParameters =
               [det \in {alignOptions.alignedDetElements[i] :
                            i \in 1..Len(alignOptions.alignedDetElements)} |->
                   transform[det]]]
    /\ returned' = "AlignmentResult"
    /\ pc' = "done"
    /\ UNCHANGED <<config, transform, alignLocals, updateLocals, trackEval,
                   updaterCalls>>

Next ==
    \/ AlignIterate
    \/ EvaluateTrack
    \/ SolveAlignment
    \/ UpdateTransform
    \/ CheckConvergence
    \/ AlignReturn

Spec == Init /\ [][Next]_vars

\* align is one sequential call: the fitter and the updater return, so a
\* step that can be taken is taken
FairSpec == Spec /\ WF_vars(Next)

(***************************************************************************)
(* align on any list of at most two elements, also one that names the     *)
(* same element twice                                                      *)
(***************************************************************************)
AnyElementLists == SeqUpTo(Elements, Cardinality(Elements))

InitAnyElements ==
    /\ alignOptions \in
           [alignedDetElements : AnyElementLists,
            averageChi2ONdfCutOff : CutOffs,
            deltaAverageChi2ONdfCutOff : (1..MaxWindow) \X Tolerances,
            maxIterations : 0..MaxIters,
            iterationState : {EmptyMap}]
    /\ trajectoryCollection \in SeqUpTo(InputTracks, MaxTracks)
    /\ startParametersCollection \in StartsOf(trajectoryCollection)
    /\ transform = InitialTransform
    /\ pc = "align"
    /\ iIter = 0
    /\ converged = FALSE
    /\ recentChi2ONdf = <<>>
    /\ alignRes = NewAlignmentResult
    /\ returned = "nothing"
    /\ idxedAlignSurfaces = EmptyMap
    /\ iTraj = 0
    /\ sumChi2Derivative = EmptyMap
    /\ sumChi2SecondDerivative = EmptyMap
    /\ sumChi2ONdf = ToDouble(0)
    /\ pending = {}
    /\ fitOutput = None
    /\ alignState = None
    /\ evaluateRes = None
    /\ usedChi2ONdf = EmptyMap
    /\ usedTracks = EmptyMap
    /\ updaterCalls = <<>>
    /\ chi2History = <<>>
    /\ alignmentMask = NoMask
    /\ inverseHasNaN = FALSE

SpecAnyElements == InitAnyElements /\ [][Next]_vars

(***************************************************************************)
(* align with masks configured for any set of iteration indices, on one    *)
(* element and one track                                                   *)
(***************************************************************************)
\* the masks a configuration names
ConfiguredMasks == {FixedRotation, AllFixed}

\* iterationState: a std::map from iteration indices to masks; the index
\* MaxIters is configurable but never executed
IterationStates ==
    UNION {[d -> ConfiguredMasks] : d \in SUBSET (0..MaxIters)}

InitMask ==
    /\ alignOptions \in
           [alignedDetElements : {<<1>>},
            averageChi2ONdfCutOff : CutOffs,
            deltaAverageChi2ONdfCutOff : {1} \X Tolerances,
            maxIterations : 0..MaxIters,
            iterationState : IterationStates]
    /\ trajectoryCollection = <<<<SourceLink(1, 1)>>>>
    /\ startParametersCollection \in StartsOf(trajectoryCollection)
    /\ transform = InitialTransform
    /\ pc = "align"
    /\ iIter = 0
    /\ converged = FALSE
    /\ recentChi2ONdf = <<>>
    /\ alignRes = NewAlignmentResult
    /\ returned = "nothing"
    /\ idxedAlignSurfaces = EmptyMap
    /\ iTraj = 0
    /\ sumChi2Derivative = EmptyMap
    /\ sumChi2SecondDerivative = EmptyMap
    /\ sumChi2ONdf = ToDouble(0)
    /\ pending = {}
    /\ fitOutput = None
    /\ alignState = None
    /\ evaluateRes = None
    /\ usedChi2ONdf = EmptyMap
    /\ usedTracks = EmptyMap
    /\ updaterCalls = <<>>
    /\ chi2History = <<>>
    /\ alignmentMask = NoMask
    /\ inverseHasNaN = FALSE

SpecMask == InitMask /\ [][Next]_vars

(***************************************************************************)
(* trackAlignmentState of AlignmentEngine.hpp alone: the four-parameter    *)
(* function called directly, once, on any fitted trajectory of at most     *)
(* MaxTrackStates states and any registry of the element lists             *)
(***************************************************************************)
EngineInit ==
    /\ alignOptions \in
           [alignedDetElements : ElementLists,
            averageChi2ONdfCutOff : CutOffs,
            deltaAverageChi2ONdfCutOff : {1} \X Tolerances,
            maxIterations : {0},
            iterationState : {EmptyMap}]
    /\ trajectoryCollection = <<>>
    /\ startParametersCollection \in StartsOf(trajectoryCollection)
    /\ transform = InitialTransform
    /\ pc = "engine"
    /\ iIter = 0
    /\ converged = FALSE
    /\ recentChi2ONdf = <<>>
    /\ alignRes = NewAlignmentResult
    /\ returned = "nothing"
    /\ idxedAlignSurfaces = IndexAlignSurfaces(alignOptions.alignedDetElements)
    /\ iTraj = 0
    /\ sumChi2Derivative = EmptyMap
    /\ sumChi2SecondDerivative = EmptyMap
    /\ sumChi2ONdf = ToDouble(0)
    /\ pending = {}
    /\ fitOutput \in [ok : {TRUE},
                      fittedStates : SeqUpTo(TrackStates, MaxTrackStates),
                      chi2 : Chi2Values]
    /\ alignState = None
    /\ evaluateRes = None
    /\ usedChi2ONdf = EmptyMap
    /\ usedTracks = EmptyMap
    /\ updaterCalls = <<>>
    /\ chi2History = <<>>
    /\ alignmentMask = NoMask
    /\ inverseHasNaN = FALSE

TrackAlignmentStateCall ==
    /\ pc = "engine"
    /\ alignState' = trackAlignmentState(fitOutput.fittedStates,
                                         fitOutput.chi2, idxedAlignSurfaces)
    /\ pc' = "engineDone"
    /\ UNCHANGED <<config, transform, alignLocals, alignRes, returned,
                   updateLocals, fitOutput, evaluateRes, usedChi2ONdf,
                   usedTracks,
                   updaterCalls>>

EngineNext == TrackAlignmentStateCall

SpecEngine == EngineInit /\ [][EngineNext]_vars

(***************************************************************************)
(* align on any list of at most MaxElements elements: an element named     *)
(* twice before another one leaves a slot beyond alignmentDof, and the     *)
(* accesses at that slot are outside the vectors and matrices. The build   *)
(* decides what follows: Eigen's assertion ends the process, or, with the  *)
(* assertions compiled out, the write goes past the sums (EvaluateTrack    *)
(* with AddSegments and AddBlocks, which leave the sums as they are) and   *)
(* the read returns unknown entries (UpdateTransform with DeltaSegment).   *)
(***************************************************************************)
\* the variables of align and updateAlignmentParameters at the entry of align
AtEntry ==
    /\ transform = InitialTransform
    /\ pc = "align"
    /\ iIter = 0
    /\ converged = FALSE
    /\ recentChi2ONdf = <<>>
    /\ alignRes = NewAlignmentResult
    /\ returned = "nothing"
    /\ idxedAlignSurfaces = EmptyMap
    /\ iTraj = 0
    /\ sumChi2Derivative = EmptyMap
    /\ sumChi2SecondDerivative = EmptyMap
    /\ sumChi2ONdf = ToDouble(0)
    /\ pending = {}
    /\ fitOutput = None
    /\ alignState = None
    /\ evaluateRes = None
    /\ usedChi2ONdf = EmptyMap
    /\ usedTracks = EmptyMap
    /\ updaterCalls = <<>>
    /\ chi2History = <<>>
    /\ alignmentMask = NoMask
    /\ inverseHasNaN = FALSE

RepeatedElementLists == SeqUpTo(Elements, MaxElements)

InitRepeatedElements ==
    /\ alignOptions \in
           [alignedDetElements : RepeatedElementLists,
            averageChi2ONdfCutOff : CutOffs,
            deltaAverageChi2ONdfCutOff : {1} \X Tolerances,
            maxIterations : 0..MaxIters,
            iterationState : {EmptyMap}]
    /\ trajectoryCollection \in SeqUpTo(InputTracks, MaxTracks)
    /\ startParametersCollection \in StartsOf(trajectoryCollection)
    /\ AtEntry

\* lines 265-272 for one row surface
AddSegmentOf(sum, state, rowSurface, it, tr) ==
    LET as == state.alignedSurfaces
    IN  [slot \in DOMAIN sum |->
            sum[slot] \cup {<<it, tr, as[s][2]>> :
                               s \in {x \in {rowSurface} : as[x][1] = slot}}]

\* lines 274-284 for one row surface and the column surfaces met so far
AddBlocksOf(sum, state, rowSurface, colSurfaces, it, tr) ==
    LET as == state.alignedSurfaces
    IN  [rc \in DOMAIN sum |->
            sum[rc] \cup {<<it, tr, as[r][2], as[c][2]>> :
                             r \in {x \in {rowSurface} : as[x][1] = rc[1]},
                             c \in {x \in colSurfaces : as[x][1] = rc[2]}}]

\* lines 250-283: the track holds a surface whose slot is beyond
\* alignmentDof and the assertion of segment() or block() fails at the
\* first access at such a slot. Both loops meet the surfaces of
\* alignedSurfaces (an unordered_map) in the same order, which is not
\* fixed: when the first surface met has its slot outside, the segment at
\* line 268 fails; otherwise its segment is added, then its blocks with
\* the surfaces met before the first one outside, where the block at line
\* 276 fails. Lines 287-289 are not reached
OutsideWriteAborts ==
    /\ pc = "evaluate"
    /\ TrackLoopContinues(iTraj, Len(trajectoryCollection))
    /\ HasStartParameters(startParametersCollection, iTraj)
    /\ \E fitRes \in FitResults(trajectoryCollection[iTraj + 1],
                                 startParametersCollection[iTraj + 1]) :
         /\ fitOutput' = fitRes
         /\ \E res \in {evaluateTrackAlignmentState(transform, fitRes,
                                                    idxedAlignSurfaces,
                                                    alignmentMask)} :
             /\ res.ok
             /\ alignState' = res.value
             /\ evaluateRes' = res
             /\ \E inside \in
                    {{s \in DOMAIN res.value.alignedSurfaces :
                         SlotInside(res.value.alignedSurfaces[s][1],
                                    alignRes.alignmentDof)}} :
                  /\ inside # DOMAIN res.value.alignedSurfaces
                  /\ \E rowSurface \in DOMAIN res.value.alignedSurfaces :
                       IF rowSurface \notin inside
                       THEN UNCHANGED <<sumChi2Derivative,
                                        sumChi2SecondDerivative>>
                       ELSE \E colSurfaces \in SUBSET inside :
                              /\ rowSurface \in colSurfaces
                              /\ sumChi2Derivative' =
                                     AddSegmentOf(sumChi2Derivative,
                                                  res.value, rowSurface,
                                                  iIter, iTraj)
                              /\ sumChi2SecondDerivative' =
                                     AddBlocksOf(sumChi2SecondDerivative,
                                                 res.value, rowSurface,
                                                 colSurfaces, iIter, iTraj)
    /\ pc' = "aborted"
    /\ UNCHANGED <<config, transform, alignLocals, alignRes, returned,
                   idxedAlignSurfaces, iTraj, sumChi2ONdf, pending,
                   inverseHasNaN, usedChi2ONdf, usedTracks, updaterCalls>>

\* lines 336-338: the update loop meets an entry whose slot is beyond
\* alignmentDof; the assertion of segment() fails
OutsideReadAborts ==
    /\ pc = "update"
    /\ \E entry \in pending : ~SlotInside(entry[2], alignRes.alignmentDof)
    /\ pc' = "aborted"
    /\ UNCHANGED <<config, transform, alignLocals, alignRes, returned,
                   updateLocals, trackEval, updaterCalls>>

NextRepeatedElements ==
    \/ Next
    \/ OutsideWriteAborts
    \/ OutsideReadAborts

SpecRepeatedElements == InitRepeatedElements /\ [][NextRepeatedElements]_vars

(***************************************************************************)
(* align with any window length, 0 included: with a length of 0 the size   *)
(* test passes on the empty queue and front() and pop() are called on it,  *)
(* which std::queue leaves undefined                                       *)
(***************************************************************************)
InitAnyWindow ==
    /\ alignOptions \in
           [alignedDetElements : ElementLists,
            averageChi2ONdfCutOff : CutOffs,
            deltaAverageChi2ONdfCutOff : (0..MaxWindow) \X Tolerances,
            maxIterations : 0..MaxIters,
            iterationState : {EmptyMap}]
    /\ trajectoryCollection \in SeqUpTo(InputTracks, MaxTracks)
    /\ startParametersCollection \in StartsOf(trajectoryCollection)
    /\ AtEntry

\* what front() and pop() on an empty queue can come to: a hardened library
\* ends the process; otherwise front() returns an unknown value, within the
\* tolerance of the current one or not, and in the latter case pop() and
\* push() leave a queue that holds nothing or the current value
EmptyWindowOutcomes == {"abort", "near", "farEmpty", "farOne"}

\* lines 434-451 on an empty queue that passes the size test
CheckConvergenceEmptyWindow ==
    /\ pc = "update"
    /\ pending = {}
    /\ ReadsEmptyWindow
    /\ \E outcome \in EmptyWindowOutcomes :
         /\ chi2History' = IF outcome = "abort" THEN chi2History
                           ELSE Append(chi2History, alignRes.averageChi2ONdf)
         /\ converged' = (outcome = "near")
         /\ pc' = CASE outcome = "abort" -> "aborted"
                   [] outcome = "near" -> "finish"
                   [] OTHER -> "align"
         /\ iIter' = IF outcome \in {"farEmpty", "farOne"} THEN iIter + 1
                     ELSE iIter
         /\ recentChi2ONdf' = IF outcome = "farOne"
                              THEN <<alignRes.averageChi2ONdf>>
                              ELSE recentChi2ONdf
    /\ UNCHANGED <<config, transform, alignRes, returned, updateLocals,
                   trackEval, updaterCalls, alignmentMask>>

NextAnyWindow ==
    \/ Next
    \/ CheckConvergenceEmptyWindow

SpecAnyWindow == InitAnyWindow /\ [][NextAnyWindow]_vars

(***************************************************************************)
(* align with any number of start parameters. With fewer or more start     *)
(* parameters than tracks the assertion of line 221 ends the process at    *)
(* the first entry of updateAlignmentParameters; in a build without        *)
(* assertions the run goes on and at(iTraj) of line 251 throws             *)
(* std::out_of_range at the first track that has no start parameters,      *)
(* which nothing catches: align returns no result.                         *)
(***************************************************************************)
InitAnyStarts ==
    /\ alignOptions \in
           [alignedDetElements : ElementLists,
            averageChi2ONdfCutOff : CutOffs,
            deltaAverageChi2ONdfCutOff : {1} \X Tolerances,
            maxIterations : 0..MaxIters,
            iterationState : {EmptyMap}]
    /\ trajectoryCollection \in SeqUpTo(InputTracks, MaxTracks)
    /\ startParametersCollection \in SeqUpTo(StartParameters, MaxTracks)
    /\ AtEntry

\* line 221 in a build with assertions: the sizes differ at the first entry
\* of updateAlignmentParameters
SizeAssertionAborts ==
    /\ pc = "align"
    /\ iIter = 0
    /\ LoopContinues(iIter, alignOptions.maxIterations)
    /\ Len(trajectoryCollection) # Len(startParametersCollection)
    /\ pc' = "aborted"
    /\ UNCHANGED <<config, transform, alignLocals, alignRes, returned,
                   updateLocals, trackEval, updaterCalls>>

\* line 251: track iTraj has no start parameters; at() throws
StartParametersOutOfRange ==
    /\ pc = "evaluate"
    /\ TrackLoopContinues(iTraj, Len(trajectoryCollection))
    /\ ~HasStartParameters(startParametersCollection, iTraj)
    /\ pc' = "thrown"
    /\ returned' = "std::out_of_range"
    /\ UNCHANGED <<config, transform, alignLocals, alignRes, updateLocals,
                   trackEval, updaterCalls>>

NextAnyStarts ==
    \/ Next
    \/ SizeAssertionAborts
    \/ StartParametersOutOfRange

SpecAnyStarts == InitAnyStarts /\ [][NextAnyStarts]_vars

(***************************************************************************)
(* Properties                                                              *)
(***************************************************************************)
Last(q) == q[Len(q)]

Window == alignOptions.deltaAverageChi2ONdfCutOff[1]
Tolerance == alignOptions.deltaAverageChi2ONdfCutOff[2]

\* |a - b| <= tol on doubles
Near(a, b, tol) == DLeq(DAbs(DSub(a, b)), tol)

\* an iteration of updateAlignmentParameters is under way
InIteration == pc \in {"evaluate", "update"}

\* C1: the first updater call that returns failure is the last call of the
\* run: align has returned AlignmentParametersUpdateFailure, nothing more
\* can happen (no call for a remaining element, no further iteration), and
\* this error is returned for no other reason.
C1_UpdateFailureEndsRun ==
    /\ \A k \in 1..Len(updaterCalls) :
           ~updaterCalls[k].updated =>
               /\ k = Len(updaterCalls)
               /\ pc = "done"
               /\ returned = "AlignmentParametersUpdateFailure"
               /\ ~ENABLED Next
    /\ returned = "AlignmentParametersUpdateFailure" =>
           /\ updaterCalls # <<>>
           /\ ~Last(updaterCalls).updated

\* the updater rejected the first of two elements while iterations remained
C1_Witness ==
    /\ returned = "AlignmentParametersUpdateFailure"
    /\ Len(updaterCalls) = 1
    /\ Len(alignOptions.alignedDetElements) = 2
    /\ iIter + 1 < alignOptions.maxIterations

\* C2: an iteration whose update step succeeded and whose averageChi2ONdf
\* is <= averageChi2ONdfCutOff is the last iteration of the run, and the
\* run is converged: the result returned is marked success.
C2_CutOffConverges ==
    \A k \in 1..Len(chi2History) :
        DLeq(chi2History[k], alignOptions.averageChi2ONdfCutOff) =>
            /\ k = Len(chi2History)
            /\ iIter = k - 1
            /\ converged
            /\ pc \in {"finish", "done"}
            /\ pc = "done" => /\ returned = "AlignmentResult"
                              /\ alignRes.result = "success"

\* the cut-off was met in a later iteration than the first, with iterations
\* to spare
C2_Witness ==
    /\ pc = "done"
    /\ Len(chi2History) >= 2
    /\ DLeq(Last(chi2History), alignOptions.averageChi2ONdfCutOff)
    /\ iIter + 1 < alignOptions.maxIterations

\* C3: with window length W >= 1 and tolerance tol, an iteration k >= W
\* whose averageChi2ONdf is within tol of the value of iteration k - W ends
\* the run converged; when it is not within tol (and above the cut-off) the
\* run is not converged by that iteration, the next iteration index is
\* reached and the queue holds the last W values, the oldest one evicted.
C3_WindowConverges ==
    \A k \in (Window + 1)..Len(chi2History) :
        LET old == chi2History[k - Window]
            cur == chi2History[k]
        IN  /\ Near(old, cur, Tolerance) =>
                /\ k = Len(chi2History)
                /\ converged
                /\ pc \in {"finish", "done"}
                /\ pc = "done" => alignRes.result = "success"
            /\ ( /\ ~Near(old, cur, Tolerance)
                 /\ ~DLeq(cur, alignOptions.averageChi2ONdfCutOff)
                 /\ k = Len(chi2History) ) =>
                /\ ~converged
                /\ iIter = k
                /\ pc # "finish"
                /\ recentChi2ONdf = SubSeq(chi2History, k - Window + 1, k)

\* the run converged through the window test, above the cut-off, after an
\* earlier iteration had evicted the oldest value
C3_Witness ==
    /\ pc = "done"
    /\ converged
    /\ Len(chi2History) >= Window + 2
    /\ ~DLeq(Last(chi2History), alignOptions.averageChi2ONdfCutOff)
    /\ Near(chi2History[Len(chi2History) - Window], Last(chi2History),
            Tolerance)

\* the last checked iteration met one of the two convergence tests. With a
\* window length of 0 the second test reads the front of a queue that holds
\* nothing or the value of the iteration before, and its outcome is what the
\* flag of align holds
TestsMet ==
    /\ chi2History # <<>>
    /\ \/ DLeq(Last(chi2History), alignOptions.averageChi2ONdfCutOff)
       \/ IF Window = 0 THEN converged
          ELSE /\ Len(chi2History) > Window
               /\ Near(chi2History[Len(chi2History) - Window],
                       Last(chi2History), Tolerance)

\* C4: when all maxIterations iterations ran and none met a convergence
\* test, align returns the AlignmentResult (not an error) with result =
\* ConvergeFailure and the values of the last iteration; a returned result
\* is marked success exactly when a convergence test was met.
C4_ExhaustedReturnsResult ==
    /\ (pc = "done" /\ returned = "AlignmentResult") =>
           /\ alignRes.result \in {"success", "ConvergeFailure"}
           /\ alignRes.result = "success" <=> TestsMet
    /\ ( /\ pc = "done"
         /\ Len(chi2History) = alignOptions.maxIterations
         /\ ~TestsMet ) =>
           /\ returned = "AlignmentResult"
           /\ alignRes.result = "ConvergeFailure"
           /\ alignOptions.maxIterations > 0 =>
                 /\ alignRes.averageChi2ONdf = Last(chi2History)
                 /\ \A slot \in DOMAIN alignRes.deltaAlignmentParameters :
                        alignRes.deltaAlignmentParameters[slot].iteration =
                            alignOptions.maxIterations - 1

\* two or more iterations ran, every update accepted, no test met
C4_Witness ==
    /\ pc = "done"
    /\ returned = "AlignmentResult"
    /\ ~TestsMet
    /\ alignOptions.maxIterations >= 2
    /\ Len(updaterCalls) = 2

\* the three terminal states of a run
EndedConverged ==
    returned = "AlignmentResult" /\ alignRes.result = "success"
EndedDidNotConverge ==
    returned = "AlignmentResult" /\ alignRes.result = "ConvergeFailure"
EndedUpdateFailure == returned = "AlignmentParametersUpdateFailure"
TerminalStatesMet ==
    {n \in {"conv", "budget", "update"} :
        \/ n = "conv" /\ EndedConverged
        \/ n = "budget" /\ EndedDidNotConverge
        \/ n = "update" /\ EndedUpdateFailure}

\* C5: every run of align ends, in exactly one of Converged,
\* Failed(update-failure), Failed(did-not-converge); at most maxIterations
\* iterations are executed; an iteration is only under way while no terminal
\* state has been reached and the iteration before it met no convergence
\* test.
C5_RunTerminates ==
    /\ <>(pc = "done")
    /\ [](pc = "done" => Cardinality(TerminalStatesMet) = 1)
    /\ [](pc # "done" => TerminalStatesMet = {})
    /\ [](Len(chi2History) <= alignOptions.maxIterations)
    /\ [](InIteration =>
             /\ Len(chi2History) < alignOptions.maxIterations
             /\ iIter = Len(chi2History)
             /\ ~TestsMet
             /\ ~converged
             /\ \A k \in 1..Len(updaterCalls) : updaterCalls[k].updated)

\* a run that used up the largest iteration budget
C5_Witness ==
    /\ pc = "done"
    /\ alignOptions.maxIterations = MaxIters
    /\ Len(chi2History) = MaxIters
    /\ EndedDidNotConverge

\* C6: when the fit of a track fails, evaluateTrackAlignmentState returns
\* the fitter's error, the track is skipped (nothing is added to any sum)
\* and the loop over the tracks goes on; align returns an error only when
\* the updater rejected a transform, and once every track has been met the
\* solve is the next step whatever fits failed.
C6_FitFailureIsLocal ==
    /\ [][(pc = "evaluate" /\ iTraj' = iTraj + 1 /\ ~fitOutput'.ok) =>
             /\ evaluateRes' = [ok |-> FALSE, error |-> fitOutput'.error]
             /\ pc' = "evaluate"
             /\ returned' = "nothing"
             /\ UNCHANGED <<sumChi2Derivative, sumChi2SecondDerivative,
                            sumChi2ONdf, alignRes, usedChi2ONdf>>]_vars
    /\ [](EndedUpdateFailure =>
             updaterCalls # <<>> /\ ~Last(updaterCalls).updated)
    /\ []((pc = "evaluate" /\ iTraj = Len(trajectoryCollection)) =>
             ENABLED SolveAlignment)

\* every fit of the last iteration failed on a two-track collection, both
\* elements were still updated and the run returned its result
C6_Witness ==
    /\ pc = "done"
    /\ returned = "AlignmentResult"
    /\ Len(trajectoryCollection) = 2
    /\ ~fitOutput.ok
    /\ evaluateRes = FitFailure
    /\ alignRes.measurementDim = 0
    /\ Len(updaterCalls) = 2

\* C7: a track whose TrackAlignmentState has alignmentDof = 0 is reported as
\* NoAlignmentDofOnTrack and leaves sumChi2Derivative,
\* sumChi2SecondDerivative, chi2, measurementDim and the chi2/ndf sum as
\* they were.
C7_ZeroDofAddsNothing ==
    [][(/\ pc = "evaluate"
        /\ iTraj' = iTraj + 1
        /\ fitOutput'.ok
        /\ alignState'.alignmentDof = 0) =>
           /\ evaluateRes' = [ok |-> FALSE, error |-> "NoAlignmentDofOnTrack"]
           /\ UNCHANGED <<sumChi2Derivative, sumChi2SecondDerivative,
                          sumChi2ONdf>>
           /\ alignRes'.chi2 = alignRes.chi2
           /\ alignRes'.measurementDim = alignRes.measurementDim]_vars

\* a fitted track with measurements but no alignable surface was met after
\* another track had been added to the sums
C7_Witness ==
    /\ pc = "evaluate"
    /\ evaluateRes = [ok |-> FALSE, error |-> "NoAlignmentDofOnTrack"]
    /\ fitOutput.ok
    /\ fitOutput.chi2 > 0
    /\ alignState.measurementDim > 0
    /\ alignRes.measurementDim > 0

\* C8: once the tracks of an iteration have been met, numTracks is the
\* number of tracks added to the sums (skipped tracks are not counted).
C8_NumTracksCountsUsed ==
    pc = "update" => alignRes.numTracks = Cardinality(DOMAIN usedChi2ONdf)

RECURSIVE DSumOver(_, _)
DSumOver(f, S) ==
    IF S = {} THEN ToDouble(0)
    ELSE LET t == CHOOSE x \in S : \A y \in S : y <= x
         IN  DAdd(DSumOver(f, S \ {t}), f[t])

\* C9: once the tracks of an iteration have been met, averageChi2ONdf is
\* the mean of chi2 / measurementDim over the tracks added to the sums.
C9_AverageOverUsedTracks ==
    (pc = "update" /\ DOMAIN usedChi2ONdf # {}) =>
        alignRes.averageChi2ONdf =
            DDivN(DSumOver(usedChi2ONdf, DOMAIN usedChi2ONdf),
                  Cardinality(DOMAIN usedChi2ONdf))

\* the registered surfaces that carry a measurement state of the trajectory
AlignableSurfacesHit(states, idxed) ==
    {s \in DOMAIN idxed :
        \E i \in 1..Len(states) :
            states[i].isMeasurement /\ states[i].surface = s}

\* C10: the alignmentDof returned by trackAlignmentState is 6 times the
\* number of distinct registered surfaces carrying a measurement state.
C10_DofCountsDistinctSurfaces ==
    pc = "engineDone" =>
        alignState.alignmentDof =
            6 * Cardinality(AlignableSurfacesHit(fitOutput.fittedStates,
                                                 idxedAlignSurfaces))

\* the summed calibratedSize of the states carrying the measurement flag
RECURSIVE MeasurementFlagDimSum(_)
MeasurementFlagDimSum(states) ==
    IF states = <<>> THEN 0
    ELSE (IF Head(states).isMeasurement THEN Head(states).calibratedSize
          ELSE 0) + MeasurementFlagDimSum(Tail(states))

\* C11: the measurementDim returned by trackAlignmentState is the sum of
\* calibratedSize over all states with the measurement flag, alignable or
\* not, also when the track has no alignable surface; states without the
\* flag add nothing.
C11_MeasurementDimSumsAllMeasurements ==
    pc = "engineDone" =>
        alignState.measurementDim =
            MeasurementFlagDimSum(fitOutput.fittedStates)

\* a trajectory without any registered surface, with a measurement state of
\* dimension 2, another of dimension 1 and a state without the flag
C11_Witness ==
    /\ pc = "engineDone"
    /\ alignState.alignmentDof = 0
    /\ alignState.measurementDim = 3
    /\ \E i \in 1..Len(fitOutput.fittedStates) :
           ~fitOutput.fittedStates[i].isMeasurement
    /\ \E i \in 1..Len(fitOutput.fittedStates) :
           /\ fitOutput.fittedStates[i].isMeasurement
           /\ fitOutput.fittedStates[i].surface \notin DOMAIN idxedAlignSurfaces

\* the tracks of the current iteration that were added to the sums and
\* carry a measurement on the surface registered at the slot
ContributorsOf(slot) ==
    {tr \in DOMAIN usedChi2ONdf :
        \E k \in 1..Len(trajectoryCollection[tr + 1]) :
            LET s == trajectoryCollection[tr + 1][k].surface
            IN  s \in DOMAIN idxedAlignSurfaces /\ idxedAlignSurfaces[s] = slot}

\* C12: once the tracks of an iteration have been met, every contributing
\* track has added to each global slot (pair of slots) of its alignable
\* surfaces the local segment (block) of that very surface (pair), so a
\* track never adds one and the same local segment or block at two
\* different slots (pairs of slots); the slots no contributing track
\* touches are still zero.
C12_BlocksBelongToSurfacePair ==
    pc = "update" =>
        /\ \A slot \in DOMAIN sumChi2Derivative :
               {t[2] : t \in sumChi2Derivative[slot]} = ContributorsOf(slot)
        /\ \A s1, s2 \in DOMAIN sumChi2Derivative :
               \A t1 \in sumChi2Derivative[s1], t2 \in sumChi2Derivative[s2] :
                   (s1 # s2 /\ t1[2] = t2[2]) => t1[3] # t2[3]
        /\ \A rc \in DOMAIN sumChi2SecondDerivative :
               {t[2] : t \in sumChi2SecondDerivative[rc]} =
                   ContributorsOf(rc[1]) \cap ContributorsOf(rc[2])
        /\ \A rc1, rc2 \in DOMAIN sumChi2SecondDerivative :
               \A t1 \in sumChi2SecondDerivative[rc1],
                  t2 \in sumChi2SecondDerivative[rc2] :
                   (rc1 # rc2 /\ t1[2] = t2[2]) =>
                       <<t1[3], t1[4]>> # <<t2[3], t2[4]>>

\* the list of elements to align
AlignedDetElements == alignOptions.alignedDetElements

\* C13 (as stated): in every iteration the registry gives the surface of
\* the element at position k (counted from 0) the slot k.
C13_SlotIsPosition ==
    InIteration =>
        \A k \in 1..Len(AlignedDetElements) :
            idxedAlignSurfaces[SurfaceOf(AlignedDetElements[k])] = k - 1

\* C13 (amended): in every iteration the registry holds exactly the
\* surfaces of the listed elements and gives each the first position
\* (counted from 0) at which an element with that surface is listed; this
\* is the element's own position when no surface is listed twice, and it
\* is the same in every iteration of the run.
C13_SlotIsFirstPosition ==
    InIteration =>
        /\ DOMAIN idxedAlignSurfaces =
               {SurfaceOf(AlignedDetElements[k]) :
                    k \in 1..Len(AlignedDetElements)}
        /\ \A s \in DOMAIN idxedAlignSurfaces :
               LET slot == idxedAlignSurfaces[s]
               IN  /\ slot \in 0..(Len(AlignedDetElements) - 1)
                   /\ SurfaceOf(AlignedDetElements[slot + 1]) = s
                   /\ \A j \in 1..slot :
                          SurfaceOf(AlignedDetElements[j]) # s

\* the second iteration of a run whose list names one element twice
C13_Witness ==
    /\ pc = "evaluate"
    /\ iIter = 1
    /\ Len(AlignedDetElements) = 2
    /\ AlignedDetElements[1] = AlignedDetElements[2]
    /\ idxedAlignSurfaces[SurfaceOf(AlignedDetElements[2])] = 0

\* C14: while iteration i is under way the mask handed to
\* updateAlignmentParameters is the one configured in iterationState for i,
\* or 111111 when none is configured for i, whatever is configured for the
\* other indices.
C14_MaskOfIteration ==
    InIteration =>
        /\ iIter \in DOMAIN alignOptions.iterationState =>
               alignmentMask = alignOptions.iterationState[iIter]
        /\ iIter \notin DOMAIN alignOptions.iterationState =>
               alignmentMask = <<1, 1, 1, 1, 1, 1>>

\* iteration 1 runs with the default mask between two iterations that have
\* a mask configured, after iteration 0 ran with its own
C14_Witness ==
    /\ pc = "evaluate"
    /\ iIter = 1
    /\ DOMAIN alignOptions.iterationState = {0, 2}
    /\ alignOptions.iterationState[0] # alignOptions.iterationState[2]
    /\ alignmentMask = <<1, 1, 1, 1, 1, 1>>

\* the elements whose update the current iteration has had accepted
AcceptedElements ==
    {updaterCalls[k].element :
        k \in {j \in 1..Len(updaterCalls) : updaterCalls[j].updated}}

\* the number of times the run has moved the element
MovesOf(element) == Len(transform[element])

\* C15: when the updater rejects an element in iteration i, the rejecting
\* call changes no transform; afterwards the elements accepted earlier in
\* iteration i carry the move of iteration i on top of those of the
\* iterations before (nothing is rolled back), and the rejected element and
\* the elements not yet met carry the moves of the iterations before i and
\* nothing else.
C15_NoRollbackOnRejection ==
    /\ [][(EndedUpdateFailure' /\ ~EndedUpdateFailure) =>
              transform' = transform]_vars
    /\ [](EndedUpdateFailure =>
             \A k \in 1..Len(AlignedDetElements) :
                 LET e == AlignedDetElements[k]
                 IN  IF e \in AcceptedElements
                     THEN /\ MovesOf(e) = iIter + 1
                          /\ \A m \in 1..MovesOf(e) :
                                 transform[e][m].iteration = m - 1
                     ELSE /\ MovesOf(e) = iIter
                          /\ \A m \in 1..MovesOf(e) :
                                 transform[e][m].iteration = m - 1)

\* the second iteration moved one element and was then refused the other
C15_Witness ==
    /\ EndedUpdateFailure
    /\ iIter = 1
    /\ Len(updaterCalls) = 2
    /\ MovesOf(updaterCalls[1].element) = 2
    /\ MovesOf(updaterCalls[2].element) = 1

\* C16: transforms change only in the update loop, which starts after the
\* last track of the iteration has been fitted and evaluated; while the
\* tracks of iteration i are fitted no updater call of iteration i has been
\* made and every aligned element carries exactly the moves of the
\* iterations before i.
C16_UpdatesOnlyBetweenFits ==
    /\ [][transform' # transform =>
              /\ pc = "update"
              /\ iTraj = Len(trajectoryCollection)]_vars
    /\ [](updaterCalls # <<>> => iTraj = Len(trajectoryCollection))
    /\ [][iTraj' = iTraj + 1 =>
              /\ updaterCalls = <<>>
              /\ pending = {}
              /\ transform' = transform
              /\ \A k \in 1..Len(AlignedDetElements) :
                     MovesOf(AlignedDetElements[k]) = iIter]_vars

\* the second track of the second iteration is about to be fitted after
\* both elements were moved once
C16_Witness ==
    /\ pc = "evaluate"
    /\ iIter = 1
    /\ iTraj = 1
    /\ Len(trajectoryCollection) = 2
    /\ fitOutput.ok
    /\ Len(AlignedDetElements) = 2
    /\ \A e \in Elements : MovesOf(e) = 1
    /\ updaterCalls = <<>>

\* the slots of the registry
RegistrySlots == {idxedAlignSurfaces[s] : s \in DOMAIN idxedAlignSurfaces}

\* C17: when the inverse of the summed second derivative holds NaN the
\* iteration goes on as usual: no error has been returned when the update
\* loop starts, a delta has been solved for every slot, every element is
\* called or still to be called, the iteration returns success once all
\* calls were accepted, and an error of the run is always a refused update.
C17_NaNInverseIsNotFatal ==
    /\ []((InIteration /\ inverseHasNaN) =>
             /\ pc = "update"
             /\ returned = "nothing"
             /\ DOMAIN alignRes.deltaAlignmentParameters = RegistrySlots
             /\ {e[2] : e \in pending}
                    \cup {updaterCalls[k].index : k \in 1..Len(updaterCalls)}
                        = RegistrySlots
             /\ pending = {} => ENABLED CheckConvergence)
    /\ [](EndedUpdateFailure =>
             /\ updaterCalls # <<>>
             /\ ~updaterCalls[Len(updaterCalls)].updated)

\* a run whose last iteration had a NaN inverse, updated both elements and
\* ended converged
C17_Witness ==
    /\ EndedConverged
    /\ inverseHasNaN
    /\ Len(updaterCalls) = 2
    /\ \A k \in 1..Len(updaterCalls) : updaterCalls[k].updated
    /\ alignRes.measurementDim > 0

\* every slot of the solved delta is zero
DeltaIsZero ==
    \A slot \in DOMAIN alignRes.deltaAlignmentParameters :
        alignRes.deltaAlignmentParameters[slot].value = <<0, 0, 0, 0, 0, 0>>

\* C18: an iteration 0 whose summed gradient is zero solves a zero delta
\* and has averageChi2ONdf at or below the cut-off, and the result the run
\* returns is then Converged after that single iteration.
C18_ZeroGradientConverges ==
    /\ (pc = "update" /\ iIter = 0 /\ IsZero(sumChi2Derivative)) =>
           /\ DeltaIsZero
           /\ DLeq(alignRes.averageChi2ONdf,
                   alignOptions.averageChi2ONdfCutOff)
    /\ (returned = "AlignmentResult" /\ chi2History # <<>>
           /\ IsZero(sumChi2Derivative)) =>
           EndedConverged /\ Len(chi2History) = 1

\* C19: when tracks with residuals on an aligned element (chi2 > 0, as an
\* element displaced by a known offset produces) have been added to the
\* sums, the delta solved for the iteration is not zero in every slot, so
\* that a displacement can be recovered from it.
C19_DeltaRecoversOffset ==
    (pc = "update" /\ alignRes.chi2 > 0 /\ DOMAIN usedChi2ONdf # {}) =>
        \E slot \in DOMAIN alignRes.deltaAlignmentParameters :
            alignRes.deltaAlignmentParameters[slot].value #
                <<0, 0, 0, 0, 0, 0>>

\* the number of states of the trajectory carrying the measurement flag
NumMeasurementStates(states) ==
    Cardinality({i \in 1..Len(states) : states[i].isMeasurement})

\* C20: for a track with an alignable measurement surface the sizes are
\* consistent: trackParametersDim is 6 per measurement state, the matrices
\* and vectors have the sizes given by measurementDim, trackParametersDim
\* and alignmentDof, and alignedSurfaces has alignmentDof / 6 entries.
C20_SizesConsistent ==
    (pc = "engineDone" /\ alignState.alignmentDof > 0) =>
        LET md == alignState.measurementDim
            pd == alignState.trackParametersDim
            dof == alignState.alignmentDof
            shapes == MatrixShapes(md, pd, dof)
        IN  /\ pd = 6 * NumMeasurementStates(fitOutput.fittedStates)
            /\ md = MeasurementFlagDimSum(fitOutput.fittedStates)
            /\ shapes.measurementCovariance = <<md, md>>
            /\ shapes.residualCovariance = <<md, md>>
            /\ shapes.projectionMatrix = <<md, pd>>
            /\ shapes.trackParametersCovariance = <<pd, pd>>
            /\ shapes.residual = <<md, 1>>
            /\ shapes.alignmentToChi2Derivative = <<dof, 1>>
            /\ shapes.alignmentToChi2SecondDerivative = <<dof, dof>>
            /\ 6 * Cardinality(DOMAIN alignState.alignedSurfaces) = dof

\* C21: for a track touching m >= 1 alignable surfaces, alignedSurfaces
\* maps each of them to (its slot in the registry, its local index), and
\* the local indices are pairwise distinct and are exactly 0..m-1.
C21_LocalIndicesEnumerateSurfaces ==
    (pc = "engineDone" /\ alignState.alignmentDof > 0) =>
        LET as == alignState.alignedSurfaces
            m == Cardinality(DOMAIN as)
        IN  /\ DOMAIN as = AlignableSurfacesHit(fitOutput.fittedStates,
                                                idxedAlignSurfaces)
            /\ \A s \in DOMAIN as : as[s][1] = idxedAlignSurfaces[s]
            /\ \A s, t \in DOMAIN as : s # t => as[s][2] # as[t][2]
            /\ {as[s][2] : s \in DOMAIN as} = 0..(m - 1)

\* the smaller of two numbers
Min(a, b) == IF a <= b THEN a ELSE b

\* C22: at every point of a run with window length W >= 1 the window holds
\* at most W entries; after k completed iterations that did not end the run
\* it holds exactly the averageChi2ONdf of the last min(k, W) of them, the
\* oldest first.
C22_WindowHoldsLastValues ==
    /\ Len(recentChi2ONdf) <= Window
    /\ Len(chi2History) >= iIter
    /\ recentChi2ONdf =
           SubSeq(chi2History, iIter - Min(iIter, Window) + 1, iIter)

\* three iterations went by with a window of two: the first value was
\* evicted and the two values kept differ
C22_Witness ==
    /\ pc = "align"
    /\ iIter = 3
    /\ Window = 2
    /\ recentChi2ONdf = SubSeq(chi2History, 2, 3)
    /\ recentChi2ONdf[1] # recentChi2ONdf[2]

\* the update loop of the current iteration ran to its end, no call rejected
UpdateLoopDone == (pc = "update" /\ pending = {}) \/ pc = "finish"

\* C23: in every executed iteration in which no update is rejected, the
\* converging one included, the updater is called exactly once for each
\* aligned element, with the element at position index of
\* alignedDetElements and a transform built from that element's current
\* transform and the entries [6*index, 6*index + 6) of
\* deltaAlignmentParameters: the first three added to the centre, the last
\* three added to the X, Y and Z rotation angles; no other slot is used.
C23_UpdaterCalledOncePerElement ==
    UpdateLoopDone =>
        /\ Len(updaterCalls) =
               Cardinality({AlignedDetElements[k] :
                               k \in DOMAIN AlignedDetElements})
        /\ \A e \in {AlignedDetElements[k] : k \in DOMAIN AlignedDetElements} :
               Cardinality({k \in DOMAIN updaterCalls :
                               updaterCalls[k].element = e}) = 1
        /\ \A k \in DOMAIN updaterCalls :
               LET call == updaterCalls[k]
                   move == Last(transform[call.element])
               IN  /\ call.updated
                   /\ call.index \in 0..(Len(AlignedDetElements) - 1)
                   /\ call.element = AlignedDetElements[call.index + 1]
                   /\ MovesOf(call.element) = iIter + 1
                   /\ move.iteration = iIter
                   /\ move.slot = call.index
                   /\ move.value =
                          alignRes.deltaAlignmentParameters[call.index].value
                   /\ move.deltaCenter = [c \in 0..2 |-> c]
                   /\ <<move.rotX, move.rotY, move.rotZ>> = <<3, 4, 5>>

\* the second iteration converged after the updater moved both elements of
\* a list that names element 2 first
C23_Witness ==
    /\ pc = "finish"
    /\ iIter = 1
    /\ AlignedDetElements = <<2, 1>>
    /\ Len(updaterCalls) = 2
    /\ MovesOf(1) = 2 /\ Last(transform[1]).slot = 1

\* sum of chi2 or of measurementDim over the tracks S of a map of tracks
RECURSIVE SumChi2Over(_, _)
SumChi2Over(f, S) ==
    IF S = {} THEN 0
    ELSE LET t == CHOOSE x \in S : TRUE
         IN  f[t].chi2 + SumChi2Over(f, S \ {t})

RECURSIVE SumMeasurementDimOver(_, _)
SumMeasurementDimOver(f, S) ==
    IF S = {} THEN 0
    ELSE LET t == CHOOSE x \in S : TRUE
         IN  f[t].measurementDim + SumMeasurementDimOver(f, S \ {t})

\* the index of the iteration whose update step ran last
LastIteration == IF pc = "align" THEN iIter - 1 ELSE iIter

\* C24: after every iteration chi2 and measurementDim of the result are the
\* sums over the tracks that contributed in that iteration only, and
\* deltaAlignmentParameters and alignmentCovariance are those solved in
\* that iteration; nothing is carried over from earlier iterations.
C24_ResultIsOfLastIteration ==
    /\ (InIteration \/ pc = "finish" \/ (pc = "align" /\ iIter > 0)) =>
           /\ alignRes.chi2 = SumChi2Over(usedTracks, DOMAIN usedTracks)
           /\ alignRes.measurementDim =
                  SumMeasurementDimOver(usedTracks, DOMAIN usedTracks)
    /\ (pc \in {"update", "finish"} \/ (pc = "align" /\ iIter > 0)) =>
           /\ \A slot \in DOMAIN alignRes.deltaAlignmentParameters :
                  alignRes.deltaAlignmentParameters[slot].iteration =
                      LastIteration
           /\ alignRes.alignmentCovariance = sumChi2SecondDerivative
           /\ \A rc \in DOMAIN alignRes.alignmentCovariance :
                  \A term \in alignRes.alignmentCovariance[rc] :
                      /\ term[1] = LastIteration
                      /\ term[2] \in DOMAIN usedTracks

\* the first iteration summed a chi2 above zero, the second one ended with
\* tracks that contributed a chi2 of zero
C24_Witness ==
    /\ pc = "update"
    /\ iIter = 1
    /\ ~DLeq(chi2History[1], ToDouble(1))
    /\ DOMAIN usedTracks # {}
    /\ alignRes.chi2 = 0
    /\ alignRes.measurementDim > 0

\* the trajectory indices of the states that carry a measurement
MeasurementIndices(states) ==
    {i \in 1..Len(states) : states[i].isMeasurement}

\* C25: for a track with alignable surfaces the per-state blocks are filled
\* last state first; every measurement state is given a row range of its
\* own measdim and a parameter range of eBoundParametersSize; the ranges
\* are disjoint, follow the forward order of the trajectory (the first
\* measurement state at offset 0), lie within measurementDim and
\* trackParametersDim, and the running offsets end at exactly 0.
C25_BlocksFollowTrajectoryOrder ==
    (pc = "engineDone" /\ alignState.alignmentDof > 0) =>
        LET states == fitOutput.fittedStates
            b == alignState.filledBlocks
            n == Len(b)
        IN  /\ {b[k].rowStateIndex : k \in 1..n} = MeasurementIndices(states)
            /\ n = Cardinality(MeasurementIndices(states))
            /\ \A k \in 1..(n - 1) :
                   b[k].rowStateIndex > b[k + 1].rowStateIndex
            /\ \A k \in 1..n :
                   /\ b[k].measdim = states[b[k].rowStateIndex].calibratedSize
                   /\ 0 <= b[k].iMeasurement
                   /\ b[k].iMeasurement + b[k].measdim <=
                          alignState.measurementDim
                   /\ 0 <= b[k].iParams
                   /\ b[k].iParams + eBoundParametersSize <=
                          alignState.trackParametersDim
            /\ \A j, k \in 1..n :
                   b[j].rowStateIndex < b[k].rowStateIndex =>
                       /\ b[j].iMeasurement + b[j].measdim <=
                              b[k].iMeasurement
                       /\ b[j].iParams + eBoundParametersSize <= b[k].iParams
            /\ b[n].iMeasurement = 0 /\ b[n].iParams = 0
            /\ alignState.iMeasurement = 0 /\ alignState.iParams = 0

\* three measurement states of dimensions 2, 1, 2: the last one was filled
\* first, at rows 3..4, the first one last, at rows 0..1
C25_Witness ==
    /\ pc = "engineDone"
    /\ alignState.alignmentDof > 0
    /\ Len(alignState.filledBlocks) = 3
    /\ alignState.filledBlocks[1] =
           [rowStateIndex |-> 3, measdim |-> 2, iMeasurement |-> 3,
            iParams |-> 12]
    /\ alignState.filledBlocks[2].iMeasurement = 2
    /\ alignState.filledBlocks[3].iMeasurement = 0

\* the parameter offset the fill loop gave to the measurement state at
\* trajectory index i
ParamOffsetOf(blocks, i) ==
    LET k == CHOOSE j \in 1..Len(blocks) : blocks[j].rowStateIndex = i
    IN  blocks[k].iParams

\* C26: for every pair (r, c) of measurement states the block of
\* trackParametersCovariance at (parameter offset of r, parameter offset of
\* c) is the block of the source covariance at (source offset of r, source
\* offset of c); the parameter offset of a state is the same as a row and
\* as a column; states without a measurement have no row and no column.
C26_CovarianceBlocksOfStatePairs ==
    (pc = "engineDone" /\ alignState.alignmentDof > 0) =>
        LET states == fitOutput.fittedStates
            b == alignState.filledBlocks
            cov == alignState.trackParametersCovariance
            ms == MeasurementIndices(states)
        IN  /\ \A blk \in cov :
                   /\ blk.rowStateIndex \in ms
                   /\ blk.colStateIndex \in ms
                   /\ blk.iParams = ParamOffsetOf(b, blk.rowStateIndex)
                   /\ blk.iCol = ParamOffsetOf(b, blk.colStateIndex)
            /\ \A r, c \in ms :
                   Cardinality({blk \in cov : /\ blk.rowStateIndex = r
                                              /\ blk.colStateIndex = c}) = 1
            /\ \A blk, other \in cov :
                   (blk.iParams = other.iParams /\ blk.iCol = other.iCol) =>
                       blk = other
            /\ Cardinality(cov) * eBoundParametersSize * eBoundParametersSize
                   = alignState.trackParametersDim
                         * alignState.trackParametersDim

\* a state without a measurement lies between two measurement states: the
\* block of (state 1, state 3) is written at (0, 6)
C26_Witness ==
    /\ pc = "engineDone"
    /\ alignState.alignmentDof > 0
    /\ Len(fitOutput.fittedStates) = 3
    /\ ~fitOutput.fittedStates[2].isMeasurement
    /\ [iParams |-> 0, iCol |-> 6, rowStateIndex |-> 1, colStateIndex |-> 3]
           \in alignState.trackParametersCovariance

\* C27: the run is converged only after an iteration in which at least one
\* track contributed; an iteration in which every track was skipped, or
\* with an empty collection, does not end the run converged.
C27_ConvergedNeedsContribution ==
    converged => DOMAIN usedTracks # {}

\* C28: for every alignedDetElements, also one in which two entries share a
\* surface, every slot s of the registry satisfies
\* eAlignmentParametersSize * (s + 1) <= alignmentDof, so every segment and
\* block at a slot lies within the sums and deltaAlignmentParameters.
C28_SlotsInsideAlignmentDof ==
    InIteration =>
        \A s \in DOMAIN idxedAlignSurfaces :
            SlotInside(idxedAlignSurfaces[s], alignRes.alignmentDof)

\* C29: for every window length, 0 included, the oldest entry of the window
\* is read or evicted only when the window holds an entry.
C29_OldestReadFromNonEmptyWindow ==
    ( /\ pc = "update"
      /\ pending = {}
      /\ ~BelowCutOff(alignRes.averageChi2ONdf,
                      alignOptions.averageChi2ONdfCutOff)
      /\ WindowFull(recentChi2ONdf, Window) ) =>
        recentChi2ONdf # <<>>

\* C30: with window length W >= 1 the run is converged through the window
\* test only in an iteration of index i >= W; hence when maxIterations <= W
\* every converged outcome is due to the cut-off test.
C30_WindowTestNeedsFullWindow ==
    converged =>
        /\ ~DLeq(Last(chi2History), alignOptions.averageChi2ONdfCutOff) =>
               /\ iIter >= Window
               /\ Near(chi2History[iIter + 1 - Window], Last(chi2History),
                       Tolerance)
        /\ alignOptions.maxIterations <= Window =>
               DLeq(Last(chi2History), alignOptions.averageChi2ONdfCutOff)

\* the window test ended the run in the first iteration it can: index W = 2
C30_Witness ==
    /\ converged
    /\ Window = 2
    /\ iIter = 2
    /\ ~DLeq(Last(chi2History), alignOptions.averageChi2ONdfCutOff)
=============================================================================
